---- MODULE Spec2Model ----
(***************************************************************************)
(* Simulation core of the fruit game: the single-player browser game       *)
(* (src/game.js) and the multiplayer server (src/server.js).               *)
(*                                                                         *)
(* Geometry is modelled on an integer lattice.  Lengths (positions, radii, *)
(* speeds) are lattice units; products of lengths are compared exactly as  *)
(* the source compares them (squared distances instead of Math.hypot where *)
(* only an order or a threshold is taken).  Upgrade multipliers and health *)
(* are fixed-point numbers so that the 0.75 diminishing-returns factor is  *)
(* exact for the modelled number of purchases.                             *)
(***************************************************************************)
EXTENDS Integers, Sequences, FiniteSets, TLC

(***************************************************************************)
(* Bounds of the model                                                     *)
(***************************************************************************)
\* Purchases of one upgrade type that are modelled (caps the fixed point).
MaxUp == 2
\* Precision of a normalised direction component: nx is a multiple of 1/UnitDen.
UnitDen == 16

(***************************************************************************)
(* Fixed point                                                             *)
(***************************************************************************)
RECURSIVE Pow(_, _)
Pow(b, e) == IF e = 0 THEN 1 ELSE b * Pow(b, e - 1)

\* Health is counted in units of 1/HealthDen, multipliers in units of 1/MultDen.
HealthDen == Pow(4, MaxUp)
MultDen == 20 * HealthDen

Abs(a) == IF a < 0 THEN -a ELSE a
Sgn(a) == IF a < 0 THEN -1 ELSE IF a > 0 THEN 1 ELSE 0
Max2(a, b) == IF a >= b THEN a ELSE b
Min2(a, b) == IF a <= b THEN a ELSE b
Max3(a, b, c) == Max2(a, Max2(b, c))

(***************************************************************************)
(* World configuration (game.js), in lattice units                         *)
(***************************************************************************)
WORLD_WIDTH == 10
WORLD_HEIGHT == 10
PLAYER_RADIUS == 2
\* Player.baseSpeed, TargetBot.speed base (6 / 60); the bot moves at half of it.
PLAYER_BASE_SPEED == 2
BOT_RADIUS == 1
BOT_SPEED == 1

Null == [null |-> TRUE]

VARIABLES
    prog,           \* which program runs: "game" (game.js) or "server" (server.js)
    gameRunning, loopAlive, player, items, bots, targetBots, bullets, obstacles,
    frameCount, progressFrame, roundLevel, timers, spawnIntervalId,
    intervalExp,    \* currentItemSpawnInterval = BASE_ITEM_SPAWN_INTERVAL * 0.9^intervalExp
    speedBoost, healthBoost, nextSpeedBoostFrame, nextHealthBoostFrame,
    players, fruits,
    closed,         \* the connections that have ended: <<socket id, cause>>
    ev              \* history: the operation that produced this state, and what it saw

gameVars == <<gameRunning, loopAlive, player, items, bots, targetBots, bullets, obstacles,
              frameCount, progressFrame, roundLevel, timers, spawnIntervalId, intervalExp,
              speedBoost, healthBoost, nextSpeedBoostFrame, nextHealthBoostFrame>>
serverVars == <<players, fruits, closed>>
vars == <<prog, gameVars, serverVars, ev>>

Range(seq) == { seq[i] : i \in 1..Len(seq) }

\* seq without its i-th element: seq.splice(i, 1)
RemoveAt(seq, i) == SubSeq(seq, 1, i - 1) \o SubSeq(seq, i + 1, Len(seq))

\* Math.hypot(ax - bx, ay - by) < reach, for reach >= 0
Within(ax, ay, bx, by, reach) ==
    (ax - bx) * (ax - bx) + (ay - by) * (ay - by) < reach * reach

Dist2(ax, ay, bx, by) == (ax - bx) * (ax - bx) + (ay - by) * (ay - by)

(***************************************************************************)
(* Obstacles: generateObstacles and collidesWithObstacles                  *)
(***************************************************************************)
RectOb(x, y, w, h) ==
    [type |-> "rect", x |-> x, y |-> y, width |-> w, height |-> h,
     cx |-> 0, cy |-> 0, radius |-> 0, rx |-> 0, ry |-> 0]
CircleOb(cx, cy, r) ==
    [type |-> "circle", x |-> 0, y |-> 0, width |-> 0, height |-> 0,
     cx |-> cx, cy |-> cy, radius |-> r, rx |-> 0, ry |-> 0]
EllipseOb(cx, cy, rx, ry) ==
    [type |-> "ellipse", x |-> 0, y |-> 0, width |-> 0, height |-> 0,
     cx |-> cx, cy |-> cy, radius |-> 0, rx |-> rx, ry |-> ry]

\* The obstacle fields generateObstacles is taken to draw: rectangles lie in
\* [0, W - w], circles and ellipses keep their extent inside the world.
ObstacleFields ==
    { << RectOb(4, 4, 2, 3) >>,
      << CircleOb(5, 5, 2) >>,
      << EllipseOb(5, 6, 3, 2) >>,
      << RectOb(3, 0, 2, 4), CircleOb(7, 7, 2) >> }

\* One obstacle against the circle (cx, cy, radius).
HitsObstacle(ob, cx, cy, radius) ==
    IF ob.type = "rect" THEN
        LET dx == Max3(ob.x - cx, 0, cx - (ob.x + ob.width))
            dy == Max3(ob.y - cy, 0, cy - (ob.y + ob.height))
        IN  dx * dx + dy * dy < radius * radius
    ELSE IF ob.type = "circle" THEN
        LET dx == ob.cx - cx
            dy == ob.cy - cy
            radSum == ob.radius + radius
        IN  dx * dx + dy * dy < radSum * radSum
    ELSE
        LET dx == cx - ob.cx
            dy == cy - ob.cy
            rxSum == ob.rx + radius
            rySum == ob.ry + radius
        IN  \* dx^2/rxSum^2 + dy^2/rySum^2 < 1, cleared of denominators
            dx * dx * rySum * rySum + dy * dy * rxSum * rxSum
                < rxSum * rxSum * rySum * rySum

CollidesIn(obs, cx, cy, radius) ==
    \E i \in 1..Len(obs) : HitsObstacle(obs[i], cx, cy, radius)

collidesWithObstacles(cx, cy, radius) == CollidesIn(obstacles, cx, cy, radius)

(***************************************************************************)
(* Normalisation of a direction and the per-tick step                      *)
(***************************************************************************)
\* |d| / hypot(dx, dy) to the nearest multiple of 1/UnitDen, n = dx^2 + dy^2 > 0.
UnitMag(d, n) ==
    CHOOSE u \in 0..UnitDen :
        /\ (u = 0 \/ (2 * u - 1) * (2 * u - 1) * n <= 4 * UnitDen * UnitDen * d * d)
        /\ 4 * UnitDen * UnitDen * d * d < (2 * u + 1) * (2 * u + 1) * n

\* (d / len) * speed on the lattice; speed is a fixed-point number over MultDen.
StepOf(d, n, speed) ==
    Sgn(d) * ((2 * UnitMag(d, n) * speed + UnitDen * MultDen) \div (2 * UnitDen * MultDen))

ClampNoRadius(v, radius, dimension) == Max2(0, Min2(dimension, v))

\* Math.max(radius, Math.min(dimension - radius, v))
Clamp(v, radius, dimension) == Max2(radius, Min2(dimension - radius, v))

\* Math.hypot(dx, dy) < 0.001
\* (on the lattice only the zero vector is that short)
LenBelowEps(dx, dy) == dx * dx + dy * dy < 1

(***************************************************************************)
(* Player.update: the movement part                                        *)
(***************************************************************************)
\* this.speed = baseSpeed * speedMultiplier * boostFactor (fixed point over MultDen)
PlayerSpeed(p) ==
    PLAYER_BASE_SPEED * p.speedMultiplier * (IF p.speedBoostFrames > 0 THEN 2 ELSE 1)

\* A Player.update whose boost timer runs only while the player moves.
PlayerUpdateMovingOnly(p) ==
    LET n == p.dirX * p.dirX + p.dirY * p.dirY
        moved ==
            LET speed == PlayerSpeed(p)
                dx == StepOf(p.dirX, n, speed)
                dy == StepOf(p.dirY, n, speed)
                testX == p.x + dx
                x1 == IF ~collidesWithObstacles(testX, p.y, p.radius) THEN testX ELSE p.x
                testY == p.y + dy
                y1 == IF ~collidesWithObstacles(x1, testY, p.radius) THEN testY ELSE p.y
            IN  [p EXCEPT !.speed = speed,
                          !.x = Clamp(x1, p.radius, WORLD_WIDTH),
                          !.y = Clamp(y1, p.radius, WORLD_HEIGHT),
                          !.speedBoostFrames = IF @ > 0 THEN @ - 1 ELSE @]
    IN  IF n > 0 THEN moved ELSE p

PlayerUpdate(p) ==
    LET n == p.dirX * p.dirX + p.dirY * p.dirY
        moved ==
            LET speed == PlayerSpeed(p)
                dx == StepOf(p.dirX, n, speed)
                dy == StepOf(p.dirY, n, speed)
                testX == p.x + dx
                x1 == IF ~collidesWithObstacles(testX, p.y, p.radius) THEN testX ELSE p.x
                testY == p.y + dy
                y1 == IF ~collidesWithObstacles(x1, testY, p.radius) THEN testY ELSE p.y
            IN  [p EXCEPT !.speed = speed,
                          !.x = Clamp(x1, p.radius, WORLD_WIDTH),
                          !.y = Clamp(y1, p.radius, WORLD_HEIGHT)]
        q == IF n > 0 THEN moved ELSE p
    IN  [q EXCEPT !.speedBoostFrames = IF @ > 0 THEN @ - 1 ELSE @]

(***************************************************************************)
(* Bot.moveTowardsTarget, Bot.moveInDirection, TargetBot.moveInDirection   *)
(***************************************************************************)
\* The body the three methods share after their own early returns: a is the
\* actor ([x, y, radius]), (dirX, dirY) the direction, speed fixed point.
\* Both axes are tested against the position before the move.
MoveAlong(a, dirX, dirY, speed) ==
    LET n == dirX * dirX + dirY * dirY
        vx == StepOf(dirX, n, speed)
        vy == StepOf(dirY, n, speed)
        \* perpendicular of (nx, ny) is (-ny, nx)
        px == StepOf(-dirY, n, speed)
        py == StepOf(dirX, n, speed)
        testX == a.x + vx
        blockedX == collidesWithObstacles(testX, a.y, a.radius)
        testY == a.y + vy
        blockedY == collidesWithObstacles(a.x, testY, a.radius)
        x1 == IF ~blockedX THEN testX ELSE a.x
        y1 == IF ~blockedY THEN testY ELSE a.y
        \* first perpendicular attempt
        altX == x1 + px
        altY == y1 + py
        okX2 == ~collidesWithObstacles(altX, y1, a.radius)
        x2 == IF okX2 THEN altX ELSE x1
        okY2 == ~collidesWithObstacles(x2, altY, a.radius)
        y2 == IF okY2 THEN altY ELSE y1
        moved2 == okX2 \/ okY2
        \* opposite perpendicular attempt
        altX3 == x2 - px
        altY3 == y2 - py
        x3 == IF ~collidesWithObstacles(altX3, y2, a.radius) THEN altX3 ELSE x2
        y3 == IF ~collidesWithObstacles(x3, altY3, a.radius) THEN altY3 ELSE y2
        xf == IF blockedX /\ blockedY THEN (IF moved2 THEN x2 ELSE x3) ELSE x1
        yf == IF blockedX /\ blockedY THEN (IF moved2 THEN y2 ELSE y3) ELSE y1
    IN  [x |-> Clamp(xf, a.radius, WORLD_WIDTH), y |-> Clamp(yf, a.radius, WORLD_HEIGHT)]

BotSpeed == BOT_SPEED * MultDen

\* Whether moveTowardsTarget gets past its early returns.
TowardsTargetRuns(b) ==
    /\ b.target # Null
    /\ ~LenBelowEps(b.target.x - b.x, b.target.y - b.y)

moveTowardsTarget(b) ==
    IF TowardsTargetRuns(b)
    THEN LET m == MoveAlong(b, b.target.x - b.x, b.target.y - b.y, BotSpeed)
         IN  [b EXCEPT !.x = m.x, !.y = m.y]
    ELSE b

moveInDirection(a, dirX, dirY, speed) ==
    IF LenBelowEps(dirX, dirY)
    THEN a
    ELSE LET m == MoveAlong(a, dirX, dirY, speed)
         IN  [a EXCEPT !.x = m.x, !.y = m.y]

(***************************************************************************)
(* Entities of game.js                                                     *)
(***************************************************************************)
\* new Player(name) placed at (x, y); name and colour are presentation only.
NewPlayer(x, y) ==
    [x |-> x, y |-> y, radius |-> PLAYER_RADIUS,
     speedMultiplier |-> MultDen, speed |-> PLAYER_BASE_SPEED * MultDen,
     dirX |-> 0, dirY |-> 0, score |-> 0, ammo |-> 0,
     facingX |-> 1, facingY |-> 0,
     maxHealth |-> 100 * HealthDen, health |-> 100 * HealthDen,
     bulletSpeedMultiplier |-> MultDen, bulletRangeMultiplier |-> MultDen,
     bulletDamageMultiplier |-> MultDen,
     level |-> 0, upgradePointsEarned |-> 0, upgradePointsSpent |-> 0,
     upgrades |-> [bulletSpeed |-> 0, bulletRange |-> 0, health |-> 0,
                   speed |-> 0, bulletDamage |-> 0],
     speedBoostFrames |-> 0,
     \* history only: the frame in which this player last collected a speed
     \* boost, 0 for none
     boostedAt |-> 0,
     \* 0.2, 0.2, 0.15 and 0.2 over MultDen; 20 health over HealthDen
     upgradeIncrement |-> [bulletSpeed |-> MultDen \div 5, bulletRange |-> MultDen \div 5,
                           speed |-> (3 * MultDen) \div 20, health |-> 20 * HealthDen,
                           bulletDamage |-> MultDen \div 5]]

\* radii {1: 1.6, 2: 2.4, 3: 3.2} and {1: 1.4, 2: 2.0, 3: 2.8} on the lattice
FruitRadius(level) == IF level = 3 THEN 2 ELSE 1
AmmoRadius(level) == IF level = 3 THEN 2 ELSE 1
FruitPoints(level) == IF level = 1 THEN 1 ELSE IF level = 2 THEN 3 ELSE 6

\* new Fruit(level) / new AmmoPickup(level) with the position spawnItem assigns.
\* id stands for the object's identity (items are compared by reference).
Fruit(id, level, x, y, frame) ==
    [id |-> id, type |-> "fruit", level |-> level, points |-> FruitPoints(level),
     amount |-> 0, radius |-> FruitRadius(level), x |-> x, y |-> y, spawnFrame |-> frame]
AmmoPickup(id, level, x, y, frame) ==
    [id |-> id, type |-> "ammo", level |-> level, points |-> 0,
     amount |-> level, radius |-> AmmoRadius(level), x |-> x, y |-> y, spawnFrame |-> frame]

\* new Bot(type) at (x, y); pointsCollected is a write-only tally and is left out.
NewBot(type, x, y) ==
    [type |-> type, x |-> x, y |-> y, radius |-> BOT_RADIUS, target |-> Null,
     rerouteRank |-> 2, stalledFrames |-> 0, framesSinceLastCollection |-> 0]

\* new TargetBot() at (x, y) with the radius of the player.
NewTargetBot(x, y, radius) ==
    [x |-> x, y |-> y, radius |-> radius, maxHealth |-> 100 * HealthDen,
     health |-> 100 * HealthDen, speed |-> PLAYER_BASE_SPEED * MultDen,
     attackCooldown |-> 0, stuckFrames |-> 0,
     \* history only: the frame of this enemy's last hit on the player and the
     \* frame of its last relocation out of a stall, 0 for none
     lastHit |-> 0, relocatedAt |-> 0]

(***************************************************************************)
(* server.js: Player                                                       *)
(***************************************************************************)
\* The server lattice unit is 0.1 grid cell: radius 0.8 is 8.
SV_WORLD_WIDTH == 24
SV_WORLD_HEIGHT == 24
SV_PLAYER_RADIUS == 8
SV_MAX_FRUIT_COUNT == 2
\* The score up to which the model follows a server player (scores are not bounded).
SvMaxScore == 3
\* speed = 5 / TICK_RATE, fixed point over MultDen
SvPlayerSpeed == 2 * MultDen

SvNewPlayer(id, x, y) ==
    [id |-> id, x |-> x, y |-> y, radius |-> SV_PLAYER_RADIUS, speed |-> SvPlayerSpeed,
     dirX |-> 0, dirY |-> 0, score |-> 0]

\* The numbers of JavaScript that are not lattice values.  A direction the
\* 'input' handler stores is kept as ToNumber gives it to Math.hypot and to the
\* division: undefined and a non-numeric string are NaN.
PosInf == 1000
NegInf == 0 - PosInf
NaN == PosInf + 1
IsNum(v) == NegInf < v /\ v < PosInf

\* Math.hypot(a, b) > 0 with an infinite result: an infinite argument makes
\* the result Infinity whatever the other one is.
HypotInfinite(a, b) == a \in {PosInf, NegInf} \/ b \in {PosInf, NegInf}

\* Math.hypot(a, b) is NaN, so that len > 0 is false.
HypotNaN(a, b) == ~HypotInfinite(a, b) /\ (a = NaN \/ b = NaN)

\* Math.max(radius, Math.min(dimension - radius, v)): NaN stays NaN.
SvClamp(v, radius, dimension) == IF v = NaN THEN NaN ELSE Clamp(v, radius, dimension)

\* One axis of a step whose len is Infinity: d / len is 0 for a number and NaN
\* for Infinity / Infinity and for NaN.
SvAxisInfinite(v, d) == IF IsNum(d) /\ v # NaN THEN v ELSE NaN

\* One axis of a step with a finite direction of squared length n > 0.
SvAxis(v, d, n, speed) == IF v = NaN THEN NaN ELSE v + StepOf(d, n, speed)

\* Player.update of server.js
SvPlayerUpdate(p) ==
    IF HypotInfinite(p.dirX, p.dirY)
    THEN [p EXCEPT !.x = SvClamp(SvAxisInfinite(p.x, p.dirX), p.radius, SV_WORLD_WIDTH),
                   !.y = SvClamp(SvAxisInfinite(p.y, p.dirY), p.radius, SV_WORLD_HEIGHT)]
    ELSE IF HypotNaN(p.dirX, p.dirY) THEN p
    ELSE
        LET n == p.dirX * p.dirX + p.dirY * p.dirY
        IN  IF n > 0
            THEN [p EXCEPT !.x = SvClamp(SvAxis(p.x, p.dirX, n, p.speed), p.radius,
                                         SV_WORLD_WIDTH),
                           !.y = SvClamp(SvAxis(p.y, p.dirY, n, p.speed), p.radius,
                                         SV_WORLD_HEIGHT)]
            ELSE p

\* Math.hypot(a.x - b.x, a.y - b.y) < reach; false when a coordinate is NaN.
SvTouch(a, b, reach) ==
    /\ a.x # NaN /\ a.y # NaN /\ b.x # NaN /\ b.y # NaN
    /\ Within(a.x, a.y, b.x, b.y, reach)

\* new Fruit(id) of server.js: radius = level * 0.2, position in [radius, dimension - radius].
SvFruit(id, level, x, y) ==
    [id |-> id, level |-> level, radius |-> 2 * level, x |-> x, y |-> y]

\* The player-fruit pass of the server tick: every fruit, in insertion order,
\* is eaten by the first player (in insertion order) that touches it.
RECURSIVE SvEatFrom(_, _, _)
SvEatFrom(ps, fs, k) ==
    IF k > Len(fs) THEN [players |-> ps, fruits |-> <<>>]
    ELSE
        LET f == fs[k]
            touching == { i \in 1..Len(ps) : SvTouch(ps[i], f, ps[i].radius + f.radius) }
            i0 == CHOOSE i \in touching : \A m \in touching : i <= m
            rest == SvEatFrom(IF touching = {} THEN ps
                              ELSE [ps EXCEPT ![i0].radius = @ + f.level,
                                              ![i0].score = @ + f.level],
                              fs, k + 1)
        IN  [players |-> rest.players,
             fruits |-> IF touching = {} THEN <<f>> \o rest.fruits ELSE rest.fruits]

\* Math.ceil(score / 2)
HalfScore(score) == (score + 1) \div 2

\* The player-player pass over the array snapshot playerEntries: pairs (i, j),
\* i < j, in loop order.  gone is the set of snapshot indices deleted so far;
\* the snapshot still holds them.
RECURSIVE SvAbsorbFrom(_, _, _, _), SvAbsorbed(_, _, _, _, _, _), SvPairFrom(_, _, _, _)
SvAbsorbFrom(arr, gone, i, j) ==
    \* the pass state is bound as a value before the pair (i, j) is looked at
    CHOOSE out \in { SvPairFrom(st[1], st[2], st[3], st[4]) : st \in { <<arr, gone, i, j>> } } :
        TRUE

\* The pair (i, j) of the snapshot and every pair after it.
SvPairFrom(arr, gone, i, j) ==
    IF i > Len(arr) THEN [arr |-> arr, gone |-> gone, events |-> <<>>]
    ELSE IF j > Len(arr) THEN SvAbsorbFrom(arr, gone, i + 1, i + 2)
    ELSE
        LET a == arr[i]
            b == arr[j]
            touch == SvTouch(a, b, a.radius + b.radius)
            aWins == 20 * a.radius > 21 * b.radius
            bWins == 20 * b.radius > 21 * a.radius
            big == IF aWins THEN i ELSE j
            small == IF aWins THEN j ELSE i
        IN  IF touch /\ (aWins \/ bWins)
            THEN SvAbsorbed(arr, gone, i, j, big, small)
            ELSE SvAbsorbFrom(arr, gone, i, j + 1)

\* The branch of the pass that eats the smaller player: radius and score go to
\* the bigger one, players.delete(smaller.id), 'dead' to the room of its id,
\* disconnect(true) on its socket if it is still there.
SvAbsorbed(arr, gone, i, j, big, small) ==
    LET rest == SvAbsorbFrom(
                    [arr EXCEPT ![big].radius = @ + (8 * arr[small].radius + 5) \div 10,
                                ![big].score = @ + HalfScore(arr[small].score)],
                    gone \cup {small}, i, j + 1)
    IN  [rest EXCEPT !.events =
            << [victor |-> arr[big].id, victim |-> arr[small].id,
                victorGone |-> big \in gone, victimGone |-> small \in gone,
                score |-> arr[small].score, gain |-> HalfScore(arr[small].score),
                dead |-> arr[small].id,
                dropped |-> IF small \in gone THEN {} ELSE {arr[small].id}] >> \o @]

(***************************************************************************)
(* Timing and capacity constants of game.js, scaled to the model           *)
(***************************************************************************)
\* Ticks the model follows one session for (frameCount is not bounded in the code).
MaxFrames == 5
MAX_FRUIT_COUNT == 2
MAX_AMMO_COUNT == 1
DESPAWN_FRAMES == 4
BOT_STALL_FRAMES == 2
BOT_POINTS_TIMEOUT_FRAMES == 5
PROGRESS_BAR_FRAMES == 3
DEFAULT_BULLET_LIFE == 3
SPEED_BOOST_DURATION_FRAMES == 3
SPEED_BOOST_RESPAWN_FRAMES == 3
HEALTH_BOOST_RESPAWN_FRAMES == 3
ATTACK_COOLDOWN_FRAMES == 2
STUCK_FRAMES == 4

\* Program constants kept at their source value.
BASE_BULLET_DAMAGE == 20
HEALTH_BOOST_AMOUNT == 15
CONTACT_DAMAGE == 20
ROUND_HEALTH_INCREMENT == 20
MAX_BOTS == 5
BOT_COST == 2
INITIAL_SPAWNS == 10

\* Lengths of the combat and boost entities, in lattice units.
BULLET_RADIUS == 1
DEFAULT_BULLET_SPEED == 3
BOOST_RADIUS == 2

\* nextLevelThreshold(currentLevel)
nextLevelThreshold(currentLevel) == 20 + currentLevel * 22

(***************************************************************************)
(* The state of game.js as one value, threaded through a handler           *)
(***************************************************************************)
World ==
    [gameRunning |-> gameRunning, loopAlive |-> loopAlive, player |-> player,
     items |-> items, bots |-> bots, targetBots |-> targetBots, bullets |-> bullets,
     obstacles |-> obstacles, frameCount |-> frameCount, progressFrame |-> progressFrame,
     roundLevel |-> roundLevel, timers |-> timers, spawnIntervalId |-> spawnIntervalId,
     intervalExp |-> intervalExp, speedBoost |-> speedBoost, healthBoost |-> healthBoost,
     nextSpeedBoostFrame |-> nextSpeedBoostFrame,
     nextHealthBoostFrame |-> nextHealthBoostFrame,
     log |-> [op |-> "none"]]

\* The handler's result becomes the next state; its log becomes the history.
Commit(w) ==
    /\ gameRunning' = w.gameRunning /\ loopAlive' = w.loopAlive /\ player' = w.player
    /\ items' = w.items /\ bots' = w.bots /\ targetBots' = w.targetBots
    /\ bullets' = w.bullets /\ obstacles' = w.obstacles /\ frameCount' = w.frameCount
    /\ progressFrame' = w.progressFrame /\ roundLevel' = w.roundLevel
    /\ timers' = w.timers /\ spawnIntervalId' = w.spawnIntervalId
    /\ intervalExp' = w.intervalExp /\ speedBoost' = w.speedBoost
    /\ healthBoost' = w.healthBoost /\ nextSpeedBoostFrame' = w.nextSpeedBoostFrame
    /\ nextHealthBoostFrame' = w.nextHealthBoostFrame
    /\ ev' = w.log
    /\ UNCHANGED <<prog, serverVars>>

\* The identity of a newly allocated object: one no live reference carries.
FreshId(w) ==
    LET used == { it.id : it \in Range(w.items) }
                \cup { b.target.id : b \in { c \in Range(w.bots) : c.target # Null } }
    IN  CHOOSE k \in 1..(Cardinality(used) + 1) : k \notin used

\* setInterval: a timer id no active timer carries.
FreshTimer(w) == CHOOSE k \in 1..(Cardinality(w.timers) + 2) : k \notin w.timers /\ k # w.spawnIntervalId

(***************************************************************************)
(* spawnItem                                                               *)
(***************************************************************************)
CountType(its, t) == Cardinality({ i \in 1..Len(its) : its[i].type = t })

\* The types spawnItem can choose with the given counts.
SpawnTypes(fruitCount, ammoCount) ==
    IF fruitCount >= MAX_FRUIT_COUNT /\ ammoCount >= MAX_AMMO_COUNT THEN {}
    ELSE IF fruitCount >= MAX_FRUIT_COUNT THEN {"ammo"}
    ELSE IF ammoCount >= MAX_AMMO_COUNT THEN {"fruit"}
    ELSE {"fruit", "ammo"}

ItemRadius(type, level) == IF type = "fruit" THEN FruitRadius(level) ELSE AmmoRadius(level)

NewItem(type, id, level, x, y, frame) ==
    IF type = "fruit" THEN Fruit(id, level, x, y, frame) ELSE AmmoPickup(id, level, x, y, frame)

\* The random placements of a circle of the given radius that one attempt can
\* draw from env.sites: x, y in [radius, dimension - radius].
Placements(env, radius) ==
    { q \in env.sites : /\ radius <= q[1] /\ q[1] <= WORLD_WIDTH - radius
                        /\ radius <= q[2] /\ q[2] <= WORLD_HEIGHT - radius }

\* The worlds one call of spawnItem() can leave: the item at an accepted
\* placement, or nothing when the caps are reached or every attempt collided.
spawnItem(w, env) ==
    LET types == SpawnTypes(CountType(w.items, "fruit"), CountType(w.items, "ammo")) \cap env.types
        placed ==
            { [w EXCEPT !.items = Append(@, NewItem(t, FreshId(w), l, q[1], q[2], w.frameCount))] :
                <<t, l, q>> \in { c \in types \X env.levels \X env.sites :
                    /\ c[3] \in Placements(env, ItemRadius(c[1], c[2]))
                    /\ ~CollidesIn(w.obstacles, c[3][1], c[3][2], ItemRadius(c[1], c[2])) } }
        \* the type and level are drawn once; only the position is redrawn
        stuck == \E t \in types, l \in env.levels :
                     \A q \in Placements(env, ItemRadius(t, l)) :
                         CollidesIn(w.obstacles, q[1], q[2], ItemRadius(t, l))
        skipped ==
            IF types = {} \/ env.spawnMayFail \/ stuck THEN {w} ELSE {}
    IN  placed \cup skipped

RECURSIVE SpawnTimes(_, _, _)
SpawnTimes(ws, env, k) ==
    IF k = 0 THEN ws
    ELSE SpawnTimes(UNION { spawnItem(w, env) : w \in ws }, env, k - 1)

(***************************************************************************)
(* update(): the tick, stage by stage                                      *)
(***************************************************************************)
TickLog ==
    [op |-> "update", ran |-> TRUE, swept |-> {}, kept |-> {}, hits |-> {},
     collected |-> {}, stallRelocated |-> {}, idleRelocated |-> {},
     acquired |-> {}, rerouted |-> {}, levelBefore |-> 0,
     newRound |-> FALSE, before |-> Null, gameOver |-> FALSE, threw |-> FALSE,
     speed |-> [slot |-> Null, next |-> 0, spawned |-> FALSE, collected |-> FALSE],
     health |-> [slot |-> Null, next |-> 0, spawned |-> FALSE, collected |-> FALSE],
     enemies |-> <<>>, visited |-> {}, strikes |-> {}, shots |-> <<>>,
     stalls |-> {}, moved |-> {}, scoreBefore |-> 0, ammoBefore |-> 0, targetsBefore |-> {},
     boostBefore |-> 0, healthBefore |-> 0]

\* The age sweep at the head of the tick.  The log keeps, for every item the
\* sweep looked at, its id and age and whether it was removed.
SweepRemoves(age) == age >= DESPAWN_FRAMES

Despawn(w) ==
    LET Age(it) == w.frameCount - it.spawnFrame
        Keep(it) == ~SweepRemoves(Age(it))
    IN  [w EXCEPT !.items = SelectSeq(w.items, Keep),
                  !.log.swept = { [id |-> it.id, age |-> Age(it)] :
                                    it \in { c \in Range(w.items) : ~Keep(c) } },
                  !.log.kept = { [id |-> it.id, age |-> Age(it)] :
                                    it \in { c \in Range(w.items) : Keep(c) } }]

\* Bullet.update
BulletUpdate(b) == [b EXCEPT !.x = @ + b.dx, !.y = @ + b.dy, !.life = @ - MultDen]

\* The first enemy the bullet touches, dead or alive.
FirstHitDeadToo(b, ts) ==
    LET hit == { j \in 1..Len(ts) :
                   Within(b.x, b.y, ts[j].x, ts[j].y, b.radius + ts[j].radius) }
    IN  IF hit = {} THEN 0 ELSE CHOOSE j \in hit : \A k \in hit : j <= k

\* The first live enemy the bullet touches, 0 when there is none.
FirstHit(b, ts) ==
    LET hit == { j \in 1..Len(ts) :
                   /\ ts[j].health > 0
                   /\ Within(b.x, b.y, ts[j].x, ts[j].y, b.radius + ts[j].radius) }
    IN  IF hit = {} THEN 0 ELSE CHOOSE j \in hit : \A k \in hit : j <= k

HitDamageAtImpact(b, p) == (BASE_BULLET_DAMAGE * HealthDen * p.bulletDamageMultiplier) \div MultDen

\* What a hit subtracts from the enemy: the damage the bullet carries.
HitDamage(b, p) == b.damage

\* A bullet that is never taken out.
BulletStays(w, b) == FALSE

\* b.life <= 0, outside the world, or collidesWithObstacles(b.x, b.y, b.radius)
BulletGone(w, b) ==
    \/ b.life <= 0
    \/ b.x < 0 \/ b.x > WORLD_WIDTH
    \/ b.y < 0 \/ b.y > WORLD_HEIGHT
    \/ CollidesIn(w.obstacles, b.x, b.y, b.radius)

\* The bullet loop, from the last bullet down to the first.
RECURSIVE BulletsFrom(_, _)
BulletsFrom(w, i) ==
    IF i = 0 THEN w
    ELSE
        LET b == BulletUpdate(w.bullets[i])
            j == FirstHit(b, w.targetBots)
            e == w.targetBots[j]
            dealt == HitDamage(b, w.player)
            left == IF e.health - dealt < 0 THEN 0 ELSE e.health - dealt
            afterHit ==
                [w EXCEPT !.targetBots[j].health = left,
                          !.bullets = RemoveAt(@, i),
                          !.log.hits = @ \cup { [enemy |-> j, bullet |-> b, idx |-> i,
                                                 healthBefore |-> e.health,
                                                 healthAfter |-> left] }]
            afterMiss ==
                IF BulletGone(w, b)
                THEN [w EXCEPT !.bullets = RemoveAt(@, i)]
                ELSE [w EXCEPT !.bullets[i] = b]
        IN  BulletsFrom(IF j # 0 THEN afterHit ELSE afterMiss, i - 1)

LevelUpOnce(p) ==
    IF p.score >= nextLevelThreshold(p.level)
    THEN [p EXCEPT !.level = @ + 1, !.upgradePointsEarned = @ + 1]
    ELSE p

\* while (player.score >= nextLevelThreshold(player.level)) { level++; upgradePointsEarned++ }
RECURSIVE LevelUp(_)
LevelUp(p) ==
    IF p.score >= nextLevelThreshold(p.level)
    THEN LevelUp([p EXCEPT !.level = @ + 1, !.upgradePointsEarned = @ + 1])
    ELSE p

\* A reward that is applied a second time.
RewardTwice(p, it) ==
    IF it.type = "fruit"
    THEN LevelUp([p EXCEPT !.score = @ + 2 * it.points])
    ELSE [p EXCEPT !.ammo = @ + 2 * it.amount]

\* The reward of an item, applied to the player.
Reward(p, it) ==
    IF it.type = "fruit"
    THEN LevelUp([p EXCEPT !.score = @ + it.points])
    ELSE [p EXCEPT !.ammo = @ + it.amount]

\* The player's item collisions, from the last item down to the first.
RECURSIVE ItemsFrom(_, _)
ItemsFrom(w, i) ==
    IF i = 0 THEN w
    ELSE
        LET it == w.items[i]
            p == w.player
        IN  ItemsFrom(
                IF Within(p.x, p.y, it.x, it.y, p.radius + it.radius)
                THEN [w EXCEPT !.items = RemoveAt(@, i),
                               !.player = Reward(p, it),
                               !.log.collected = @ \cup { [id |-> it.id, type |-> it.type,
                                                             by |-> 0, points |-> it.points,
                                                             amount |-> it.amount] }]
                ELSE w,
                i - 1)

\* spawnSpeedBoost / spawnHealthBoost: an accepted placement, or none.
BoostOutcomes(w, env) ==
    LET ok == { q \in Placements(env, BOOST_RADIUS) \cap env.boostSites :
                  ~CollidesIn(w.obstacles, q[1], q[2], BOOST_RADIUS) }
    IN  { [x |-> q[1], y |-> q[2], radius |-> BOOST_RADIUS, spawnFrame |-> w.frameCount] :
            q \in ok }
        \cup (IF ok = {} \/ env.spawnMayFail THEN {Null} ELSE {})

\* A boost that is due although its respawn delay has not elapsed.
BoostDueAnyTime(slot, frame, next) == slot = Null

\* !speedBoost && frameCount >= nextSpeedBoostFrame (and the same for health)
BoostDue(slot, frame, next) == slot = Null /\ frame >= next

SpeedBoostStage(w, env) ==
    LET spawned ==
            IF BoostDue(w.speedBoost, w.frameCount, w.nextSpeedBoostFrame)
            THEN { [w EXCEPT !.speedBoost = sb, !.log.speed.spawned = (sb # Null)] :
                     sb \in BoostOutcomes(w, env) }
            ELSE {w}
        Collect(v) ==
            IF /\ v.speedBoost # Null
               /\ Within(v.player.x, v.player.y, v.speedBoost.x, v.speedBoost.y,
                         v.player.radius + v.speedBoost.radius)
            THEN [v EXCEPT !.player.speedBoostFrames = SPEED_BOOST_DURATION_FRAMES,
                           !.player.boostedAt = v.frameCount,
                           !.nextSpeedBoostFrame = v.frameCount + SPEED_BOOST_RESPAWN_FRAMES,
                           !.speedBoost = Null,
                           !.log.speed.collected = TRUE]
            ELSE v
    IN  { Collect(v) : v \in spawned }

\* A health boost that adds its amount without looking at maxHealth.
HealthBoostStageUncapped(w, env) ==
    LET spawned ==
            IF BoostDue(w.healthBoost, w.frameCount, w.nextHealthBoostFrame)
            THEN { [w EXCEPT !.healthBoost = hb, !.log.health.spawned = (hb # Null)] :
                     hb \in BoostOutcomes(w, env) }
            ELSE {w}
        Collect(v) ==
            IF /\ v.healthBoost # Null
               /\ Within(v.player.x, v.player.y, v.healthBoost.x, v.healthBoost.y,
                         v.player.radius + v.healthBoost.radius)
            THEN [v EXCEPT !.player.health = @ + HEALTH_BOOST_AMOUNT * HealthDen,
                           !.nextHealthBoostFrame = v.frameCount + HEALTH_BOOST_RESPAWN_FRAMES,
                           !.healthBoost = Null,
                           !.log.health.collected = TRUE]
            ELSE v
    IN  { Collect(v) : v \in spawned }

HealthBoostStage(w, env) ==
    LET spawned ==
            IF BoostDue(w.healthBoost, w.frameCount, w.nextHealthBoostFrame)
            THEN { [w EXCEPT !.healthBoost = hb, !.log.health.spawned = (hb # Null)] :
                     hb \in BoostOutcomes(w, env) }
            ELSE {w}
        Collect(v) ==
            IF /\ v.healthBoost # Null
               /\ Within(v.player.x, v.player.y, v.healthBoost.x, v.healthBoost.y,
                         v.player.radius + v.healthBoost.radius)
            THEN [v EXCEPT !.player.health =
                               Min2(v.player.maxHealth, @ + HEALTH_BOOST_AMOUNT * HealthDen),
                           !.nextHealthBoostFrame = v.frameCount + HEALTH_BOOST_RESPAWN_FRAMES,
                           !.healthBoost = Null,
                           !.log.health.collected = TRUE]
            ELSE v
    IN  { Collect(v) : v \in spawned }

(***************************************************************************)
(* Bot: findTarget, findFarthestTarget, update                             *)
(***************************************************************************)
WantsType(b, it) ==
    \/ (b.type = "point" /\ it.type = "fruit")
    \/ (b.type = "ammo" /\ it.type = "ammo")

ReservedNever(w, i, it) == FALSE

\* Whether another bot holds the item as its target (comparison by reference).
Reserved(w, i, it) ==
    \E k \in 1..Len(w.bots) : k # i /\ w.bots[k].target # Null /\ w.bots[k].target.id = it.id

\* The indices in items of the candidates of bot i, in array order.
Candidates(w, i) ==
    { k \in 1..Len(w.items) :
        WantsType(w.bots[i], w.items[k]) /\ ~Reserved(w, i, w.items[k]) }

BotDist2(w, i, k) == Dist2(w.bots[i].x, w.bots[i].y, w.items[k].x, w.items[k].y)

\* findTarget: the nearest candidate, the first of equally near ones; null if none.
findTarget(w, i) ==
    LET c == Candidates(w, i)
    IN  IF c = {} THEN Null
        ELSE w.items[CHOOSE k \in c :
                 \A m \in c : \/ BotDist2(w, i, k) < BotDist2(w, i, m)
                              \/ (BotDist2(w, i, k) = BotDist2(w, i, m) /\ k <= m)]

\* findFarthestTarget(rank): the candidates sorted by distance, farthest first
\* (the sort is stable), and the one at index min(rank - 1, length - 1).
findFarthestTarget(w, i, rank) ==
    LET c == Candidates(w, i)
        \* position of candidate k in the sorted order, from 1
        Place(k) == 1 + Cardinality({ m \in c :
                          \/ BotDist2(w, i, m) > BotDist2(w, i, k)
                          \/ (BotDist2(w, i, m) = BotDist2(w, i, k) /\ m < k) })
        idx == Min2(rank - 1, Cardinality(c) - 1)
    IN  IF c = {} THEN Null
        ELSE w.items[CHOOSE k \in c : Place(k) = idx + 1]

InItems(w, it) == \E k \in 1..Len(w.items) : w.items[k].id = it.id

IndexOfItem(w, it) == CHOOSE k \in 1..Len(w.items) : w.items[k].id = it.id

\* delta < speed * num / den, with d2 = delta^2 and speed fixed point
DeltaBelow(d2, speed, num, den) ==
    d2 * den * den < ((speed * speed * num * num) + MultDen * MultDen - 1) \div (MultDen * MultDen)

\* The respawn of a bot that has not collected for too long: at the player, nudged
\* at random while that collides (at most 20 times).
IdleRespawnSpots(w, b, env) ==
    LET p == w.player
        nudged == { <<p.x + d[1], p.y + d[2]>> : d \in env.nudges }
        ok == { q \in nudged : ~CollidesIn(w.obstacles, q[1], q[2], b.radius) }
    IN  IF ~CollidesIn(w.obstacles, p.x, p.y, b.radius) THEN { <<p.x, p.y>> }
        ELSE IF ok = {} \/ env.spawnMayFail THEN nudged ELSE ok

\* A random position for a circle of the given radius, redrawn while it collides
\* (do ... while, at most 50 draws): used by the stalled bot and by new TargetBot().
RetryPlacements(w, env, radius, obs) ==
    LET all == Placements(env, radius)
        ok == { q \in all : ~CollidesIn(obs, q[1], q[2], radius) }
    IN  IF ok = {} \/ env.spawnMayFail THEN all ELSE ok

StallRespawnKeepsRank(b, q) ==
    [b EXCEPT !.x = q[1], !.y = q[2], !.stalledFrames = 0, !.target = Null]

\* The fields the stall respawn writes before the tick goes on.
StallRespawn(b, q) ==
    [b EXCEPT !.x = q[1], !.y = q[2], !.stalledFrames = 0, !.rerouteRank = 2, !.target = Null]

\* Bot.update, first part: acquire a target if there is none or if the current
\* one is no longer in items.
BotAcquired(w, i, t) ==
    [w EXCEPT !.bots[i].target = t,
              !.log.acquired = IF t # Null THEN @ \cup {i} ELSE @]

BotAcquire(w, i) ==
    IF w.bots[i].target = Null \/ ~InItems(w, w.bots[i].target)
    THEN BotAcquired(w, i, findTarget(w, i))
    ELSE w

\* The respawn near the player of a bot that has not collected for too long.
IdleRespawn(w, i, q) ==
    [w EXCEPT !.bots[i].x = q[1], !.bots[i].y = q[2],
              !.bots[i].framesSinceLastCollection = 0,
              !.bots[i].stalledFrames = 0,
              !.bots[i].rerouteRank = 2,
              !.bots[i].target = Null,
              !.log.idleRelocated = @ \cup {i}]

\* framesSinceLastCollection++ and the idle timeout.
BotIdle(w, i, env) ==
    IF w.bots[i].framesSinceLastCollection + 1 >= BOT_POINTS_TIMEOUT_FRAMES
    THEN { IdleRespawn(w, i, q) : q \in IdleRespawnSpots(w, w.bots[i], env) }
    ELSE { [w EXCEPT !.bots[i].framesSinceLastCollection = @ + 1] }

\* The stalled branch: stalledFrames is already counted in w; nt is what
\* findFarthestTarget(rerouteRank) returned.
BotReroutedSameRank(w, i, nt) ==
    [w EXCEPT !.bots[i].target = IF nt # Null /\ nt # @ THEN nt ELSE @,
              !.log.rerouted = IF nt # Null /\ nt # w.bots[i].target THEN @ \cup {i} ELSE @]

BotRerouted(w, i, nt) ==
    [w EXCEPT !.bots[i].target = IF nt # Null /\ nt # @ THEN nt ELSE @,
              !.bots[i].rerouteRank = @ + 1,
              !.log.rerouted = IF nt # Null /\ nt # w.bots[i].target THEN @ \cup {i} ELSE @,
              !.log.stalls = @ \cup
                  { [bot |-> i, k |-> w.bots[i].stalledFrames, rank |-> w.bots[i].rerouteRank,
                     cands |-> { [id |-> w.items[c].id, d2 |-> BotDist2(w, i, c)] :
                                   c \in Candidates(w, i) },
                     picked |-> IF nt = Null THEN 0 ELSE nt.id,
                     was |-> w.bots[i].target.id] }]

BotStalled(w, i) == BotRerouted(w, i, findFarthestTarget(w, i, w.bots[i].rerouteRank))

\* The bot after moveTowardsTarget is m: stall accounting and rerouting.
BotMoved(w, i, m) ==
    IF DeltaBelow(Dist2(m.x, m.y, w.bots[i].x, w.bots[i].y), BotSpeed, 1, 100)
    THEN BotStalled([w EXCEPT !.bots[i] = [m EXCEPT !.stalledFrames = @ + 1]], i)
    ELSE [w EXCEPT !.bots[i] = [m EXCEPT !.stalledFrames = 0, !.rerouteRank = 2],
                   !.log.moved = @ \cup {i}]

\* The bot collects its target t for the player.
BotCollected(w, i, t) ==
    [w EXCEPT !.items = IF InItems(w, t) THEN RemoveAt(@, IndexOfItem(w, t)) ELSE @,
              !.player = Reward(@, t),
              !.bots[i].framesSinceLastCollection = 0,
              !.bots[i].target = Null,
              !.bots[i].rerouteRank = 2,
              !.bots[i].stalledFrames = 0,
              !.log.collected = @ \cup { [id |-> t.id, type |-> t.type, by |-> i,
                                            points |-> t.points, amount |-> t.amount] }]

\* The end of the branch under if (this.target).  At the stall threshold the
\* respawn clears the target, and the distance test that follows reads
\* this.target.x: a TypeError, which ends the tick and the animation loop.
BotArrive(w, i, env) ==
    IF w.bots[i].stalledFrames >= BOT_STALL_FRAMES
    THEN { [w EXCEPT !.bots[i] = StallRespawn(@, q),
                     !.log.stallRelocated = @ \cup {i},
                     !.log.threw = TRUE,
                     !.loopAlive = FALSE] :
             q \in RetryPlacements(w, env, w.bots[i].radius, w.obstacles) }
    ELSE IF Within(w.bots[i].x, w.bots[i].y, w.bots[i].target.x, w.bots[i].target.y,
                   w.bots[i].radius + w.bots[i].target.radius)
    THEN { BotCollected(w, i, w.bots[i].target) }
    ELSE { w }

\* Bot.update of bot i: the worlds it can leave.
BotUpdate(w, i, env) ==
    UNION { IF v.bots[i].target # Null
            THEN BotArrive(BotMoved(v, i, moveTowardsTarget(v.bots[i])), i, env)
            ELSE { v } :
            v \in BotIdle(BotAcquire(w, i), i, env) }

\* for (const bot of bots) bot.update(): an exception ends the loop and the tick.
RECURSIVE BotsFrom(_, _, _)
BotsFrom(w, i, env) ==
    IF w.log.threw \/ i > Len(w.bots) THEN {w}
    ELSE UNION { BotsFrom(v, i + 1, env) : v \in BotUpdate(w, i, env) }

(***************************************************************************)
(* TargetBot.update and the enemy loop of update()                         *)
(***************************************************************************)
\* Twice the centre of an obstacle (a rectangle's centre is x + width / 2).
Centre2(ob) ==
    IF ob.type = "rect" THEN <<2 * ob.x + ob.width, 2 * ob.y + ob.height>>
    ELSE <<2 * ob.cx, 2 * ob.cy>>

\* Twice the centre of the obstacle nearest to (x, y), the first of equally near ones.
NearestCentre2(obs, x, y) ==
    LET D(k) == Dist2(2 * x, 2 * y, Centre2(obs[k])[1], Centre2(obs[k])[2])
        k0 == CHOOSE k \in 1..Len(obs) :
                  \A m \in 1..Len(obs) : D(k) < D(m) \/ (D(k) = D(m) /\ k <= m)
    IN  Centre2(obs[k0])

\* The directions the enemy can take, as 40 times (vx, vy): the vector to the
\* player plus 0.15 of the vector away from the nearest obstacle centre when the
\* player is farther than 6 radii; a random direction when that is nearly zero.
EnemyDirs(e, p, obs, env) ==
    LET far == Dist2(p.x, p.y, e.x, e.y) > 36 * e.radius * e.radius
        c == NearestCentre2(obs, e.x, e.y)
        repel == Len(obs) > 0 /\ far
        vx == 40 * (p.x - e.x) + (IF repel THEN 3 * (2 * e.x - c[1]) ELSE 0)
        vy == 40 * (p.y - e.y) + (IF repel THEN 3 * (2 * e.y - c[2]) ELSE 0)
    IN  IF LenBelowEps(vx, vy) THEN env.angles ELSE { <<vx, vy>> }

\* The respawn band opposite the player on one axis: [0.75, 0.95] or [0.05, 0.25]
\* of the dimension.
OppositeBand(v, dimension) ==
    IF 2 * v < dimension
    THEN { q \in 0..dimension : 75 * dimension <= 100 * q /\ 100 * q <= 95 * dimension }
    ELSE { q \in 0..dimension : 5 * dimension <= 100 * q /\ 100 * q <= 25 * dimension }

\* Up to 50 draws in the opposite quadrant; the last draw is used even if it collides.
OppositeSpots(w, e, env) ==
    LET all == OppositeBand(w.player.x, WORLD_WIDTH) \X OppositeBand(w.player.y, WORLD_HEIGHT)
        ok == { q \in all : ~CollidesIn(w.obstacles, q[1], q[2], e.radius) }
    IN  IF ok = {} \/ env.spawnMayFail THEN all ELSE ok

\* TargetBot.update of enemy j: the values it can leave the enemy with.
EnemyUpdate(w, j, env) ==
    LET e0 == w.targetBots[j]
        p == w.player
        e1 == [e0 EXCEPT !.speed = PLAYER_BASE_SPEED * p.speedMultiplier]
        After(m) ==
            LET stuck == DeltaBelow(Dist2(m.x, m.y, e0.x, e0.y), e1.speed, 1, 10)
                m2 == [m EXCEPT !.stuckFrames = IF stuck THEN @ + 1 ELSE 0]
            IN  IF m2.stuckFrames >= STUCK_FRAMES
                THEN { [m2 EXCEPT !.x = q[1], !.y = q[2], !.stuckFrames = 0,
                                  !.relocatedAt = w.frameCount] :
                         q \in OppositeSpots(w, m2, env) }
                ELSE { m2 }
    IN  IF e0.health <= 0 THEN { e0 }
        ELSE UNION { After(moveInDirection(e1, d[1], d[2], e1.speed)) :
                       d \in EnemyDirs(e1, p, w.obstacles, env) }

\* A gameOver that leaves the spawn interval running.
gameOverKeepsTimer(w) ==
    [w EXCEPT !.gameRunning = FALSE,
              !.progressFrame = 0,
              !.log.gameOver = TRUE]

\* gameOver()
gameOver(w) ==
    [w EXCEPT !.gameRunning = FALSE,
              !.timers = @ \ {w.spawnIntervalId},
              !.progressFrame = 0,
              !.log.gameOver = TRUE]

\* for (const enemy of targetBots): update, contact damage, cooldown; the loop
\* ends at the enemy whose hit brings the player's health to zero.
\* A cooldown test that lets every contact hit.
CooldownIgnored(cooldown) == TRUE

\* !enemy.attackCooldown || enemy.attackCooldown <= 0
CooldownExpired(cooldown) == cooldown <= 0

\* A hit that never ends the game.
EndsGameNever(hp) == FALSE

\* if (player.health <= 0) { gameOver(); break; }
EndsGame(hp) == hp <= 0

\* The world with enemy j's hit on the player noted in the log.
Struck(w, j, e, hp) ==
    [w EXCEPT !.player.health = hp,
              !.log.strikes = @ \cup { [enemy |-> j, cooldown |-> e.attackCooldown,
                                         prev |-> e.lastHit, alive |-> e.health > 0,
                                         healthBefore |-> w.player.health,
                                         healthAfter |-> hp] }]

RECURSIVE EnemiesFrom(_, _, _)
EnemiesFrom(w, j, env) ==
    IF j > Len(w.targetBots) THEN {w}
    ELSE UNION {
        LET p == w.player
            strikes == /\ Within(e.x, e.y, p.x, p.y, e.radius + p.radius)
                       /\ CooldownExpired(e.attackCooldown)
            hp == Max2(0, p.health - CONTACT_DAMAGE * HealthDen)
            struck == IF strikes
                      THEN [e EXCEPT !.attackCooldown = ATTACK_COOLDOWN_FRAMES,
                                     !.lastHit = w.frameCount]
                      ELSE e
            cooled == IF struck.attackCooldown > 0
                      THEN [struck EXCEPT !.attackCooldown = @ - 1]
                      ELSE struck
            v == [w EXCEPT !.log.visited = @ \cup {j}]
        IN  IF strikes /\ EndsGame(hp)
            THEN { gameOver(Struck([v EXCEPT !.targetBots[j] = struck], j, e, hp)) }
            ELSE EnemiesFrom(IF strikes
                             THEN Struck([v EXCEPT !.targetBots[j] = cooled], j, e, hp)
                             ELSE [v EXCEPT !.targetBots[j] = cooled],
                             j + 1, env)
        : e \in EnemyUpdate(w, j, env) }

(***************************************************************************)
(* startNewRound and the progress bar                                      *)
(***************************************************************************)
RoundHealthSame(h) == h

RoundHealth(h) == h + ROUND_HEALTH_INCREMENT * HealthDen

startNewRound(w, env) ==
    LET p == w.player
        round == w.roundLevel + 1
        raised == [k \in 1..Len(w.targetBots) |->
                     [w.targetBots[k] EXCEPT !.maxHealth = RoundHealth(@),
                                             !.health = RoundHealth(@)]]
        seed == p.maxHealth + ROUND_HEALTH_INCREMENT * HealthDen * (round - 1)
        id == FreshTimer(w)
    IN  { [w EXCEPT !.roundLevel = round,
                    !.progressFrame = 0,
                    !.targetBots = Append(raised,
                        [NewTargetBot(q[1], q[2], p.radius) EXCEPT !.maxHealth = seed,
                                                                   !.health = seed]),
                    !.intervalExp = @ + 1,
                    !.timers = (@ \ {w.spawnIntervalId}) \cup {id},
                    !.spawnIntervalId = id,
                    !.log.newRound = TRUE,
                    !.log.before = [roundLevel |-> w.roundLevel,
                                    targetBots |-> w.targetBots,
                                    progressFrame |-> w.progressFrame,
                                    maxHealth |-> p.maxHealth]] :
            q \in RetryPlacements(w, env, p.radius, w.obstacles) }

ProgressStage(w, env) ==
    IF w.progressFrame < PROGRESS_BAR_FRAMES
    THEN { [w EXCEPT !.progressFrame = @ + 1] }
    ELSE startNewRound(w, env)

\* update() while the game runs, stage by stage.
TickStart ==
    [World EXCEPT !.log = [TickLog EXCEPT !.levelBefore = player.level,
                                          !.scoreBefore = player.score,
                                          !.ammoBefore = player.ammo,
                                          !.boostBefore = player.speedBoostFrames,
                                          !.healthBefore = player.health,
                                          !.targetsBefore =
                                              { bots[k].target.id :
                                                  k \in { m \in 1..Len(bots) :
                                                             bots[m].target # Null } },
                                          !.speed.slot = speedBoost,
                                          !.speed.next = nextSpeedBoostFrame,
                                          !.health.slot = healthBoost,
                                          !.health.next = nextHealthBoostFrame,
                                          !.enemies = targetBots,
                                          !.shots = bullets],
                  !.frameCount = @ + 1]

PlayerStage(w) == [w EXCEPT !.player = PlayerUpdate(@)]

BulletStage(w) == BulletsFrom(w, Len(w.bullets))

ItemStage(w) == ItemsFrom(w, Len(w.items))

BoostStage(w, env) == UNION { HealthBoostStage(v, env) : v \in SpeedBoostStage(w, env) }

BotStage(ws, env) == UNION { BotsFrom(w, 1, env) : w \in ws }

EnemyStage(ws, env) ==
    UNION { IF w.log.threw THEN {w} ELSE EnemiesFrom(w, 1, env) : w \in ws }

RoundStage(ws, env) ==
    UNION { IF w.log.threw THEN {w} ELSE ProgressStage(w, env) : w \in ws }

\* Every world one tick can leave.
TickOutcomes(env) ==
    RoundStage(
        EnemyStage(
            BotStage(
                BoostStage(ItemStage(BulletStage(PlayerStage(Despawn(TickStart)))), env),
                env),
            env),
        env)

(***************************************************************************)
(* Inputs                                                                  *)
(***************************************************************************)
\* Direction vectors: updateDirFromKeys gives the nine key combinations;
\* touch input and the server's 'input' message give arbitrary vectors.
Dirs == {-1, 0, 1} \X {-1, 0, 1}

Positions(lo, hiX, hiY) == (lo..hiX) \X (lo..hiY)

PosOf(a) == [x |-> a.x, y |-> a.y]

\* The game before the first startGame: nothing exists, the loop is running.
GameIdle ==
    /\ gameRunning = FALSE /\ loopAlive = TRUE /\ player = Null
    /\ items = <<>> /\ bots = <<>> /\ targetBots = <<>> /\ bullets = <<>>
    /\ obstacles = <<>> /\ frameCount = 0 /\ progressFrame = 0 /\ roundLevel = 1
    /\ timers = {} /\ spawnIntervalId = 0 /\ intervalExp = 0
    /\ speedBoost = Null /\ healthBoost = Null
    /\ nextSpeedBoostFrame = 0 /\ nextHealthBoostFrame = 0

ServerIdle == players = << >> /\ fruits = << >> /\ closed = {}

NoEvent == [op |-> "none", who |-> "none", idx |-> 0, pre |-> [x |-> 0, y |-> 0], ran |-> FALSE]

(***************************************************************************)
(* Handlers of game.js                                                     *)
(***************************************************************************)
\* requestAnimationFrame(update) while a game runs.  MaxFrames bounds the session.
Tick(env) ==
    /\ prog = "game" /\ loopAlive /\ gameRunning /\ player # Null
    /\ frameCount < MaxFrames
    /\ \E w \in TickOutcomes(env) : Commit(w)

\* update() while no game runs: nothing but the next requestAnimationFrame and
\* draw().
IdleFrame ==
    /\ prog = "game" /\ loopAlive /\ ~(gameRunning /\ player # Null)
    /\ Commit([World EXCEPT !.log = [TickLog EXCEPT !.ran = FALSE]])

\* A key from 1 to 7 while no game runs: the listener returns at once.
IgnoredKey ==
    /\ prog = "game" /\ ~(gameRunning /\ player # Null)
    /\ Commit([World EXCEPT !.log = [op |-> "keydown", ran |-> FALSE]])

\* The item-spawn interval timer fires.
SpawnTimer(env) ==
    /\ prog = "game" /\ spawnIntervalId \in timers
    /\ \E w \in spawnItem([World EXCEPT !.log = [op |-> "spawnItem"]], env) : Commit(w)

\* startGame(), the click on the start button (shown while no game runs).
startGame(env) ==
    LET w1 == [World EXCEPT !.log = [op |-> "startGame"],
                            !.player = NewPlayer(0, 0),
                            !.items = <<>>, !.bots = <<>>, !.roundLevel = 1,
                            !.intervalExp = 0, !.gameRunning = TRUE]
        \* the initial items are placed before generateObstacles() runs
        spawned == SpawnTimes({w1}, env, INITIAL_SPAWNS)
        Timed(w) == LET id == FreshTimer(w)
                    IN  [w EXCEPT !.timers = (@ \ {w.spawnIntervalId}) \cup {id},
                                  !.spawnIntervalId = id]
        Placed(w, f) ==
            { [w EXCEPT !.obstacles = f,
                        !.player.x = q[1], !.player.y = q[2],
                        !.targetBots = << [NewTargetBot(e[1], e[2], w.player.radius)
                                             EXCEPT !.maxHealth = w.player.maxHealth,
                                                    !.health = w.player.maxHealth] >>,
                        !.progressFrame = 0] :
                <<q, e>> \in { c \in env.starts \X env.sites :
                    /\ ~CollidesIn(f, c[1][1], c[1][2], w.player.radius)
                    /\ c[2] \in RetryPlacements(w, env, w.player.radius, f) } }
    IN  UNION { Placed(Timed(w), f) : <<w, f>> \in spawned \X env.fields }

StartGame(env) ==
    /\ prog = "game" /\ ~gameRunning
    /\ \E w \in startGame(env) : Commit(w)

\* new Bullet(player.x, player.y, facingX, facingY, speedMult, rangeMult, damageMult)
BULLET_START_GAP == 0

NewBullet(p) ==
    LET n == p.facingX * p.facingX + p.facingY * p.facingY
        startOffset == (p.radius + BULLET_START_GAP) * MultDen
        speed == DEFAULT_BULLET_SPEED * p.bulletSpeedMultiplier
    IN  [x |-> p.x + StepOf(p.facingX, n, startOffset),
         y |-> p.y + StepOf(p.facingY, n, startOffset),
         dx |-> StepOf(p.facingX, n, speed),
         dy |-> StepOf(p.facingY, n, speed),
         radius |-> BULLET_RADIUS,
         life |-> DEFAULT_BULLET_LIFE * p.bulletRangeMultiplier,
         damage |-> (BASE_BULLET_DAMAGE * HealthDen * p.bulletDamageMultiplier) \div MultDen,
         \* history: the damage and range multipliers of the player when the bullet
         \* was made, and the frame it was made in (filled in by shoot)
         firedWith |-> p.bulletDamageMultiplier,
         firedRange |-> p.bulletRangeMultiplier,
         firedAt |-> 0]

CanShootAnyAmmo(w) ==
    /\ w.gameRunning /\ w.player # Null
    /\ ~LenBelowEps(w.player.facingX, w.player.facingY)

\* A shoot() that does not look at gameRunning.
CanShootStopped(w) ==
    /\ w.player # Null
    /\ w.player.ammo > 0
    /\ ~LenBelowEps(w.player.facingX, w.player.facingY)

\* Whether shoot() gets past its early returns.
CanShoot(w) ==
    /\ w.gameRunning /\ w.player # Null
    /\ w.player.ammo > 0
    /\ ~LenBelowEps(w.player.facingX, w.player.facingY)

shoot(w) ==
    IF CanShoot(w)
    THEN [w EXCEPT !.bullets = Append(@, [NewBullet(w.player) EXCEPT
                                             !.firedAt = w.frameCount]),
                   !.player.ammo = @ - 1]
    ELSE w

\* The fire button, the space bar or a left click.
Shoot ==
    /\ prog = "game"
    /\ Commit([shoot(World) EXCEPT
                  !.log = [op |-> "shoot",
                           ammo |-> IF player = Null THEN 0 ELSE player.ammo,
                           bullets |-> bullets,
                           fired |-> CanShoot(World)]])

\* mousemove: the facing vector follows the pointer.
SetFacing(d) ==
    /\ prog = "game" /\ gameRunning /\ player # Null
    /\ Commit([World EXCEPT !.player.facingX = d[1], !.player.facingY = d[2],
                            !.log = [op |-> "setFacing"]])

UpgradeTypes == {"bulletSpeed", "bulletRange", "health", "speed", "bulletDamage"}

applyUpgrade(p, type) ==
    LET inc == p.upgradeIncrement[type]
        q == IF type = "bulletSpeed" THEN [p EXCEPT !.bulletSpeedMultiplier = @ + inc]
             ELSE IF type = "bulletRange" THEN [p EXCEPT !.bulletRangeMultiplier = @ + inc]
             ELSE IF type = "health"
                  THEN [p EXCEPT !.maxHealth = @ + inc, !.health = p.maxHealth + inc]
             ELSE IF type = "speed" THEN [p EXCEPT !.speedMultiplier = @ + inc]
             ELSE [p EXCEPT !.bulletDamageMultiplier = @ + inc]
    IN  IF p.upgradePointsEarned - p.upgradePointsSpent <= 0 \/ type \notin UpgradeTypes
        THEN p
        ELSE [q EXCEPT !.upgrades[type] = @ + 1,
                       \* the next increment is 0.75 of this one
                       !.upgradeIncrement[type] = (3 * @) \div 4,
                       !.upgradePointsSpent = @ + 1]

\* Keys 1, 2, 3, 4 and 7.  MaxUp bounds the upgrades of one type.
UpgradeKey(type) ==
    /\ prog = "game" /\ gameRunning /\ player # Null
    /\ player.upgrades[type] < MaxUp
    /\ Commit([World EXCEPT !.player = applyUpgrade(player, type),
                            !.log = [op |-> "applyUpgrade", type |-> type,
                                     before |-> player]])

\* A purchase that is never refused.
buyBotAnyTime(w, botType) ==
    [w EXCEPT !.player.upgradePointsSpent = @ + BOT_COST,
              !.bots = Append(@, NewBot(botType, w.player.x, w.player.y))]

buyBot(w, botType) ==
    LET p == w.player
    IN  IF Len(w.bots) >= MAX_BOTS \/ p.upgradePointsEarned - p.upgradePointsSpent < BOT_COST
        THEN w
        ELSE [w EXCEPT !.player.upgradePointsSpent = @ + BOT_COST,
                       !.bots = Append(@, NewBot(botType, p.x, p.y))]

\* Keys 5 and 6.
BuyBotKey(botType) ==
    /\ prog = "game" /\ gameRunning /\ player # Null
    /\ Commit([buyBot(World, botType) EXCEPT
                  !.log = [op |-> "buyBot", type |-> botType, before |-> player,
                           bots |-> Len(bots)]])

(***************************************************************************)
(* Handlers of server.js                                                   *)
(***************************************************************************)
\* The socket ids of the connections that have ended.
ClosedIds == { c[1] : c \in closed }

SvFreshId == CHOOSE k \in 1..(Len(fruits) + 1) : \A i \in 1..Len(fruits) : fruits[i].id # k

\* A spawnFruit that never finds the registry full.
SvFruitCapOff(size) == FALSE

\* fruits.size >= MAX_FRUIT_COUNT
SvFruitCap(size) == size >= SV_MAX_FRUIT_COUNT

\* spawnFruit(), on its interval.
SvSpawnFruit(env) ==
    /\ prog = "server"
    /\ IF SvFruitCap(Len(fruits))
       THEN fruits' = fruits
       ELSE \E l \in env.svLevels, q \in env.svSites :
               /\ 2 * l <= q[1] /\ q[1] <= SV_WORLD_WIDTH - 2 * l
               /\ 2 * l <= q[2] /\ q[2] <= SV_WORLD_HEIGHT - 2 * l
               /\ fruits' = Append(fruits, SvFruit(SvFreshId, l, q[1], q[2]))
    /\ ev' = [op |-> "spawnFruit", size |-> Len(fruits)]
    /\ UNCHANGED <<prog, gameVars, players, closed>>

\* A pass whose players.delete has no effect.
SvSurvivorsAll(arr, gone) == arr

\* The registry after the collision pass: players.delete(smaller.id) has taken
\* out the snapshot entries in gone, the others keep their order.
SvSurvivors(arr, gone) ==
    [k \in 1..Cardinality({ m \in 1..Len(arr) : m \notin gone }) |->
        arr[CHOOSE m \in 1..Len(arr) :
                /\ m \notin gone
                /\ Cardinality({ n \in 1..m : n \notin gone }) = k]]

\* Array.from(players.values()) for the 'state' message: the ids it lists.
SvSnapshot(ps) == { ps[k].id : k \in 1..Len(ps) }

\* The main loop of the server: move, eat fruit, absorb players, broadcast.
SvTick ==
    /\ prog = "server"
    /\ \A k \in 1..Len(players) : players[k].score < SvMaxScore
    /\ \E fed \in { SvEatFrom([k \in 1..Len(players) |-> SvPlayerUpdate(players[k])],
                                fruits, 1) } :
       \E fought \in { SvAbsorbFrom(fed.players, {}, 1, 2) } :
       LET left == SvSurvivors(fought.arr, fought.gone)
       IN  /\ players' = left
           /\ fruits' = fed.fruits
           /\ closed' = closed \cup { <<fought.arr[m].id, "dead">> : m \in fought.gone }
           /\ ev' = [op |-> "svTick", before |-> players, fruits |-> fruits,
                     closedBefore |-> closed, fed |-> fed.players,
                     absorbed |-> { fought.arr[m].id : m \in fought.gone },
                     events |-> fought.events,
                     state |-> SvSnapshot(left)]
    /\ UNCHANGED <<prog, gameVars>>

(***************************************************************************)
(* SpecMove: the movement methods applied to one actor                     *)
(***************************************************************************)
\* A running game with the given field and entities, between two ticks.
Scene(f, p, its, bs, ts) ==
    /\ prog = "game" /\ gameRunning = TRUE /\ loopAlive = TRUE
    /\ obstacles = f /\ player = p /\ items = its /\ bots = bs /\ targetBots = ts
    /\ bullets = <<>> /\ frameCount = 0 /\ progressFrame = 0 /\ roundLevel = 1
    /\ timers = {1} /\ spawnIntervalId = 1 /\ intervalExp = 0
    /\ speedBoost = Null /\ healthBoost = Null
    /\ nextSpeedBoostFrame = 0 /\ nextHealthBoostFrame = 0
    /\ ServerIdle /\ ev = NoEvent

\* Where startGame can leave the player: anywhere in the world, outside obstacles.
PlayerStarts(f) ==
    { q \in Positions(0, WORLD_WIDTH, WORLD_HEIGHT) : ~CollidesIn(f, q[1], q[2], PLAYER_RADIUS) }

SomeStart(f) == CHOOSE q \in PlayerStarts(f) : TRUE

\* Where spawnItem can put an item of the given radius.
ItemSites(f, r) ==
    { q \in Positions(r, WORLD_WIDTH - r, WORLD_HEIGHT - r) : ~CollidesIn(f, q[1], q[2], r) }

\* The places a bot's target is taken to lie at in SpecMove.
TargetSites == { <<1, 1>>, <<9, 9>>, <<1, 8>>, <<9, 5>>, <<5, 1>> }

InitMove ==
    \/ \E f \in ObstacleFields, boost \in {0, 2} : \E q \in PlayerStarts(f) :
          Scene(f, [NewPlayer(q[1], q[2]) EXCEPT !.speedBoostFrames = boost],
                    <<>>, <<>>, <<>>)
    \/ \E f \in ObstacleFields, q \in Positions(0, WORLD_WIDTH, WORLD_HEIGHT) :
          \E t \in ItemSites(f, FruitRadius(1)) \cap TargetSites :
             LET it == Fruit(1, 1, t[1], t[2], 0)
             IN  Scene(f, NewPlayer(SomeStart(f)[1], SomeStart(f)[2]), <<it>>,
                           << [NewBot("point", q[1], q[2]) EXCEPT !.target = it] >>, <<>>)
    \/ \E f \in ObstacleFields :
          \E q \in Positions(PLAYER_RADIUS, WORLD_WIDTH - PLAYER_RADIUS,
                             WORLD_HEIGHT - PLAYER_RADIUS) :
             Scene(f, NewPlayer(SomeStart(f)[1], SomeStart(f)[2]), <<>>, <<>>,
                       << NewTargetBot(q[1], q[2], PLAYER_RADIUS) >>)
    \/ \E q \in Positions(0, SV_WORLD_WIDTH, SV_WORLD_HEIGHT) :
          /\ prog = "server" /\ GameIdle
          /\ players = << SvNewPlayer(1, q[1], q[2]) >> /\ fruits = << >> /\ closed = {}
          /\ ev = NoEvent

\* updateDirFromKeys / handleTouch: the player's intended direction.
SetDir(d) ==
    /\ prog = "game" /\ player # Null
    /\ player' = [player EXCEPT !.dirX = d[1], !.dirY = d[2]]
    /\ ev' = [NoEvent EXCEPT !.op = "setDir"]
    /\ UNCHANGED <<prog, gameRunning, loopAlive, items, bots, targetBots, bullets, obstacles,
                   frameCount, progressFrame, roundLevel, timers, spawnIntervalId,
                   intervalExp, speedBoost, healthBoost, nextSpeedBoostFrame,
                   nextHealthBoostFrame, serverVars>>

MoveSetDir == \E d \in Dirs : bots = <<>> /\ targetBots = <<>> /\ SetDir(d)

\* player.update()
MovePlayerUpdate ==
    /\ prog = "game" /\ player # Null /\ bots = <<>> /\ targetBots = <<>>
    /\ player' = PlayerUpdate(player)
    /\ ev' = [op |-> "Player.update", who |-> "player", idx |-> 0, pre |-> PosOf(player),
              ran |-> (player.dirX # 0 \/ player.dirY # 0)]
    /\ UNCHANGED <<prog, gameRunning, loopAlive, items, bots, targetBots, bullets, obstacles,
                   frameCount, progressFrame, roundLevel, timers, spawnIntervalId,
                   intervalExp, speedBoost, healthBoost, nextSpeedBoostFrame,
                   nextHealthBoostFrame, serverVars>>

\* bot.moveTowardsTarget()
MoveBotTowardsTarget ==
    \E i \in 1..Len(bots) :
        /\ prog = "game"
        /\ bots' = [bots EXCEPT ![i] = moveTowardsTarget(bots[i])]
        /\ ev' = [op |-> "Bot.moveTowardsTarget", who |-> "bot", idx |-> i,
                  pre |-> PosOf(bots[i]), ran |-> TowardsTargetRuns(bots[i])]
        /\ UNCHANGED <<prog, gameRunning, loopAlive, player, items, targetBots, bullets,
                       obstacles, frameCount, progressFrame, roundLevel, timers,
                       spawnIntervalId, intervalExp, speedBoost, healthBoost,
                       nextSpeedBoostFrame, nextHealthBoostFrame, serverVars>>

\* bot.moveInDirection(dirX, dirY)
MoveBotInDirection ==
    \E i \in 1..Len(bots), d \in Dirs :
        /\ prog = "game"
        /\ bots' = [bots EXCEPT ![i] = moveInDirection(bots[i], d[1], d[2], BotSpeed)]
        /\ ev' = [op |-> "Bot.moveInDirection", who |-> "bot", idx |-> i,
                  pre |-> PosOf(bots[i]), ran |-> ~LenBelowEps(d[1], d[2])]
        /\ UNCHANGED <<prog, gameRunning, loopAlive, player, items, targetBots, bullets,
                       obstacles, frameCount, progressFrame, roundLevel, timers,
                       spawnIntervalId, intervalExp, speedBoost, healthBoost,
                       nextSpeedBoostFrame, nextHealthBoostFrame, serverVars>>

\* enemy.moveInDirection(dirX, dirY)
MoveTargetBotInDirection ==
    \E i \in 1..Len(targetBots), d \in Dirs :
        /\ prog = "game"
        /\ targetBots' = [targetBots EXCEPT
                            ![i] = moveInDirection(targetBots[i], d[1], d[2], targetBots[i].speed)]
        /\ ev' = [op |-> "TargetBot.moveInDirection", who |-> "enemy", idx |-> i,
                  pre |-> PosOf(targetBots[i]), ran |-> ~LenBelowEps(d[1], d[2])]
        /\ UNCHANGED <<prog, gameRunning, loopAlive, player, items, bots, bullets,
                       obstacles, frameCount, progressFrame, roundLevel, timers,
                       spawnIntervalId, intervalExp, speedBoost, healthBoost,
                       nextSpeedBoostFrame, nextHealthBoostFrame, serverVars>>

\* A handler that takes the payload as the player's position as well.
SvInputStoredMoves(ps, k, d) ==
    IF d = <<>>
    THEN [threw |-> TRUE, players |-> ps]
    ELSE [threw |-> FALSE,
          players |-> [ps EXCEPT ![k].dirX = d[1], ![k].dirY = d[2], ![k].x = d[1]]]

\* player.dirX = data.x; player.dirY = data.y for the player at index k.  d is
\* the payload: <<x, y>>, or <<>> when the message carries none, and then
\* data.x throws a TypeError before anything is stored.
SvInputStored(ps, k, d) ==
    IF d = <<>>
    THEN [threw |-> TRUE, players |-> ps]
    ELSE [threw |-> FALSE, players |-> [ps EXCEPT ![k].dirX = d[1], ![k].dirY = d[2]]]

\* socket.on('input') on the connection with socket id `id`.
SvInput(id, d) ==
    /\ prog = "server" /\ id \notin ClosedIds
    /\ LET known == { k \in 1..Len(players) : players[k].id = id }
           out == SvInputStored(players, CHOOSE k \in known : TRUE, d)
       IN  IF known = {}
           THEN /\ players' = players
                /\ ev' = [op |-> "input", idx |-> id, payload |-> d, known |-> FALSE,
                          threw |-> FALSE, before |-> players, fruits |-> fruits]
           ELSE /\ players' = out.players
                /\ ev' = [op |-> "input", idx |-> id, payload |-> d, known |-> TRUE,
                          threw |-> out.threw, before |-> players, fruits |-> fruits]
    /\ UNCHANGED <<prog, gameVars, fruits, closed>>

MoveSvInput == \E id \in { q.id : q \in Range(players) }, d \in Dirs : SvInput(id, d)

\* player.update() of the server's Player
MoveSvPlayerUpdate ==
    \E id \in 1..Len(players) :
        /\ prog = "server"
        /\ players' = [players EXCEPT ![id] = SvPlayerUpdate(players[id])]
        /\ ev' = [op |-> "SvPlayer.update", who |-> "svplayer", idx |-> id,
                  pre |-> PosOf(players[id]),
                  ran |-> (players[id].dirX # 0 \/ players[id].dirY # 0)]
        /\ UNCHANGED <<prog, gameVars, fruits, closed>>

NextMove ==
    \/ MoveSetDir
    \/ MovePlayerUpdate
    \/ MoveBotTowardsTarget
    \/ MoveBotInDirection
    \/ MoveTargetBotInDirection
    \/ MoveSvInput
    \/ MoveSvPlayerUpdate

SpecMove == InitMove /\ [][NextMove]_vars

(***************************************************************************)
(* SpecBots: collector bots in a running game                              *)
(***************************************************************************)
BotField == << RectOb(4, 4, 2, 3) >>

\* What the random draws can give in SpecBots.
EnvBots ==
    [sites |-> { <<2, 8>> },
     boostSites |-> { <<8, 8>> },
     types |-> {"fruit"}, levels |-> {1}, spawnMayFail |-> FALSE,
     nudges |-> { <<1, 1>> }, angles |-> { <<1, 0>> },
     fields |-> { BotField }, starts |-> { <<2, 5>> },
     svSites |-> {}, svLevels |-> {}]

\* A player who has reached the given level with the given score.
Levelled(p, score, level) ==
    [p EXCEPT !.score = score, !.level = level, !.upgradePointsEarned = level]

\* A running game in BotField: the player at rest with upgrade points to spend,
\* the first enemy shot dead in a corner, up to two fruits on the ground (one
\* layout has a fruit within the player's reach).
InitBots ==
    \/ \E sc \in { <<39, 1>>, <<63, 2>>, <<86, 4>> } :
       \E its \in { <<>>,
                    << Fruit(1, 1, 2, 7, 0) >>,
                    << Fruit(1, 1, 8, 5, 0) >>,
                    << Fruit(1, 1, 8, 5, 0), Fruit(2, 3, 8, 8, 0) >>,
                    << Fruit(1, 1, 8, 8, 0), Fruit(2, 1, 8, 5, 0) >> } :
           Scene(BotField, Levelled(NewPlayer(2, 5), sc[1], sc[2]), its, <<>>,
                 << [NewTargetBot(8, 2, PLAYER_RADIUS) EXCEPT !.health = 0] >>)
    \* later in a session: the first bot has been held by the obstacle for all but
    \* one of the frames it is allowed, the second is on its way to a fruit that
    \* is one frame short of the despawn age
    \/ LET old == Fruit(1, 1, 8, 8, 0)
           new == Fruit(2, 1, 8, 5, DESPAWN_FRAMES - 2)
       IN  /\ prog = "game" /\ gameRunning = TRUE /\ loopAlive = TRUE
           /\ obstacles = BotField
           /\ player = [Levelled(NewPlayer(2, 5), 86, 4) EXCEPT
                           !.upgradePointsSpent = 2 * BOT_COST]
           /\ items = << old, new >>
           /\ bots = << [NewBot("point", 3, 5) EXCEPT
                            !.target = new, !.stalledFrames = BOT_STALL_FRAMES - 1,
                            !.rerouteRank = 2 + BOT_STALL_FRAMES - 1,
                            !.framesSinceLastCollection = BOT_STALL_FRAMES],
                        [NewBot("point", 3, 8) EXCEPT
                            !.target = old,
                            !.framesSinceLastCollection = 1] >>
           /\ targetBots = << [NewTargetBot(8, 2, PLAYER_RADIUS) EXCEPT !.health = 0] >>
           /\ bullets = <<>>
           /\ frameCount = DESPAWN_FRAMES - 1
           /\ progressFrame = Min2(DESPAWN_FRAMES - 1, PROGRESS_BAR_FRAMES)
           /\ roundLevel = 1
           /\ timers = {1} /\ spawnIntervalId = 1 /\ intervalExp = 0
           /\ speedBoost = [x |-> 8, y |-> 8, radius |-> BOOST_RADIUS, spawnFrame |-> 1]
           /\ healthBoost = [x |-> 8, y |-> 8, radius |-> BOOST_RADIUS, spawnFrame |-> 1]
           /\ nextSpeedBoostFrame = 0 /\ nextHealthBoostFrame = 0
           /\ ServerIdle /\ ev = NoEvent

BotsTick == Tick(EnvBots)
BotsSpawnTimer == SpawnTimer(EnvBots)
BotsBuyBot == BuyBotKey("point")

NextBots ==
    \/ BotsTick
    \/ BotsSpawnTimer
    \/ BotsBuyBot

SpecBots == InitBots /\ [][NextBots]_vars

(***************************************************************************)
(* SpecCombat: shooting, upgrades, enemies and the round timer             *)
(***************************************************************************)
EnvCombat ==
    [sites |-> { <<8, 8>> },
     boostSites |-> { <<8, 8>> },
     types |-> {"ammo"}, levels |-> {1}, spawnMayFail |-> FALSE,
     nudges |-> { <<1, 1>> }, angles |-> { <<1, 0>> },
     fields |-> { BotField }, starts |-> { <<2, 2>> },
     svSites |-> {}, svLevels |-> {}]

\* A running game in BotField: the player in a corner with or without ammo and
\* with upgrade points to spend, the first enemy alive across the field, whole
\* or with less health left than one bullet takes.
InitCombat ==
    \E ammo \in {0, 2}, hp \in {20, 100}, eh \in {10, 100} :
        Scene(BotField,
              [Levelled(NewPlayer(2, 2), 63, 2) EXCEPT !.ammo = ammo,
                                                       !.health = hp * HealthDen],
              <<>>, <<>>,
              << [NewTargetBot(8, 2, PLAYER_RADIUS) EXCEPT !.health = eh * HealthDen] >>)

CombatTick == Tick(EnvCombat)
CombatShoot == Shoot
CombatSetFacing == \E d \in { <<1, 0>>, <<1, 1>>, <<0, 0>> } : SetFacing(d)
CombatUpgrade == \E t \in {"bulletDamage", "health"} : UpgradeKey(t)

NextCombat ==
    \/ CombatTick
    \/ CombatShoot
    \/ CombatSetFacing
    \/ CombatUpgrade

SpecCombat == InitCombat /\ [][NextCombat]_vars

(***************************************************************************)
(* SpecItems: sessions, the item registry and the server's fruit           *)
(***************************************************************************)
EnvItems ==
    [sites |-> { <<8, 8>>, <<5, 5>> },
     boostSites |-> { <<8, 8>> },
     types |-> {"fruit", "ammo"}, levels |-> {1}, spawnMayFail |-> FALSE,
     nudges |-> { <<1, 1>> }, angles |-> { <<1, 0>> },
     fields |-> { BotField }, starts |-> { <<2, 2>> },
     svSites |-> { <<8, 8>>, <<16, 16>> }, svLevels |-> {1}]

\* The page as loaded, a game about to be lost (the enemy next to a player with
\* one hit left), or the server with one or two players.
InitItems ==
    \/ prog = "game" /\ GameIdle /\ ServerIdle /\ ev = NoEvent
    \/ Scene(BotField, [NewPlayer(2, 2) EXCEPT !.health = 20 * HealthDen],
             << Fruit(1, 1, 8, 8, 0) >>, <<>>, << NewTargetBot(5, 2, PLAYER_RADIUS) >>)
    \/ \E ps \in { << SvNewPlayer(1, 8, 8) >>,
                   << SvNewPlayer(1, 8, 8), SvNewPlayer(2, 16, 12) >> } :
          /\ prog = "server" /\ GameIdle
          /\ players = ps /\ fruits = << >> /\ closed = {}
          /\ ev = NoEvent

ItemsStartGame == StartGame(EnvItems)
ItemsTick == Tick(EnvItems)
ItemsSpawnTimer == SpawnTimer(EnvItems)
ItemsSvSpawnFruit == SvSpawnFruit(EnvItems)
ItemsSvTick == SvTick
ItemsSvInput == \E id \in { q.id : q \in Range(players) }, d \in { <<1, 0>>, <<0, 0>> } : SvInput(id, d)

NextItems ==
    \/ ItemsStartGame
    \/ ItemsTick
    \/ ItemsSpawnTimer
    \/ ItemsSvSpawnFruit
    \/ ItemsSvTick
    \/ ItemsSvInput

SpecItems == InitItems /\ [][NextItems]_vars

(***************************************************************************)
(* SpecBoosts: the two boosts, a moving player and enemy contact           *)
(***************************************************************************)
EnvBoosts ==
    [sites |-> { <<2, 2>>, <<8, 8>> },
     boostSites |-> { <<2, 2>>, <<8, 8>> },
     types |-> {"fruit"}, levels |-> {1}, spawnMayFail |-> FALSE,
     nudges |-> { <<1, 1>> }, angles |-> { <<1, 0>> },
     fields |-> { BotField }, starts |-> { <<2, 2>> },
     svSites |-> {}, svLevels |-> {}]

\* A running game in BotField: the player in a corner, hurt or not, the first
\* enemy shot dead either across the field or within the player's reach.
InitBoosts ==
    \/ \E hp \in {20, 100}, ex \in {5, 8} :
          Scene(BotField, [NewPlayer(2, 2) EXCEPT !.health = hp * HealthDen],
                <<>>, <<>>,
                << [NewTargetBot(ex, 2, PLAYER_RADIUS) EXCEPT !.health = 0] >>)
    \* the second round has just begun: both enemies have reached a player with
    \* one hit left
    \/ /\ prog = "game" /\ gameRunning = TRUE /\ loopAlive = TRUE
       /\ obstacles = BotField
       /\ player = [NewPlayer(2, 2) EXCEPT !.health = 20 * HealthDen]
       /\ items = <<>> /\ bots = <<>> /\ bullets = <<>>
       /\ targetBots =
             << [NewTargetBot(6, 2, PLAYER_RADIUS) EXCEPT
                     !.maxHealth = RoundHealth(@), !.health = RoundHealth(@)],
                [NewTargetBot(2, 6, PLAYER_RADIUS) EXCEPT
                     !.maxHealth = RoundHealth(@), !.health = RoundHealth(@)] >>
       /\ frameCount = PROGRESS_BAR_FRAMES + 1 /\ progressFrame = 0 /\ roundLevel = 2
       /\ timers = {2} /\ spawnIntervalId = 2 /\ intervalExp = 1
       /\ speedBoost = [x |-> 8, y |-> 8, radius |-> BOOST_RADIUS, spawnFrame |-> 1]
       /\ healthBoost = [x |-> 8, y |-> 8, radius |-> BOOST_RADIUS, spawnFrame |-> 1]
       /\ nextSpeedBoostFrame = 0 /\ nextHealthBoostFrame = 0
       /\ ServerIdle /\ ev = NoEvent

BoostsTick == Tick(EnvBoosts)
BoostsSetDir == \E d \in { <<1, 0>>, <<0, 0>> } : SetDir(d)
BoostsStartGame == StartGame(EnvBoosts)

NextBoosts ==
    \/ BoostsTick
    \/ BoostsSetDir
    \/ BoostsStartGame

SpecBoosts == InitBoosts /\ [][NextBoosts]_vars

(***************************************************************************)
(* SpecServer: connections of server.js joining, steering and leaving      *)
(***************************************************************************)
\* A join that registers the player beside the one the socket already has.
SvJoinedBeside(ps, id, q) == Append(ps, SvNewPlayer(id, q[1], q[2]))

\* players.set(id, new Player(id, name)): a key the Map already holds keeps its
\* place and gets the new value, a new key goes to the end.
SvJoined(ps, id, q) ==
    LET known == { k \in 1..Len(ps) : ps[k].id = id }
    IN  IF known = {}
        THEN Append(ps, SvNewPlayer(id, q[1], q[2]))
        ELSE [ps EXCEPT ![CHOOSE k \in known : TRUE] = SvNewPlayer(id, q[1], q[2])]

\* socket.on('join') on the connection with socket id `id`; q is the random
\* position of the new Player.  emitted is the id carried by the 'init' message.
SvJoin(id, q) ==
    /\ prog = "server" /\ id \notin ClosedIds
    /\ players' = SvJoined(players, id, q)
    /\ ev' = [op |-> "join", idx |-> id, before |-> players, emitted |-> id,
              threw |-> FALSE]
    /\ UNCHANGED <<prog, gameVars, fruits, closed>>

\* A disconnect that leaves the registry as it is.
SvLeftKept(ps, id) == ps

\* players.delete(socket.id)
SvLeft(ps, id) == SelectSeq(ps, LAMBDA q : q.id # id)

\* socket.on('disconnect'), when the client goes away.
SvDisconnect(id) ==
    /\ prog = "server" /\ id \notin ClosedIds
    /\ players' = SvLeft(players, id)
    /\ closed' = closed \cup { <<id, IF \E k \in 1..Len(players) : players[k].id = id
                                     THEN "left" ELSE "idle">> }
    /\ ev' = [op |-> "disconnect", idx |-> id, before |-> players]
    /\ UNCHANGED <<prog, gameVars, fruits>>

\* The socket ids of the connections.
SvSockets == {1, 2}

\* What the random draws can give in SpecServer.
EnvServer ==
    [svSites |-> { <<12, 8>> }, svLevels |-> {1},
     joinSites |-> { <<3, 12>> }]

\* The payloads of 'input' after ToNumber of their fields: a unit direction, no
\* direction, {x: Infinity, y: 0}, {x: NaN, y: 1}, an object without x and y
\* (or with non-numeric ones), and no payload at all.
SvPayloads ==
    { <<1, 0>>, <<0, 0>>, <<PosInf, 0>>, <<NaN, 1>>, <<NaN, NaN>>, <<>> }

\* The client on socket 1 sends any of them, the one on socket 2 stands still.
SvPayloadsOf(id) == IF id = 1 THEN SvPayloads ELSE { <<0, 0>> }

\* The server after start-up: nobody has joined, no fruit yet.
InitServer ==
    /\ prog = "server" /\ GameIdle
    /\ players = << >> /\ fruits = << >> /\ closed = {}
    /\ ev = NoEvent

\* Connections are followed while no player has outgrown what eating alone
\* gives within SvMaxScore (absorbing newcomers grows a radius without end).
ServerJoin ==
    /\ \A k \in 1..Len(players) : players[k].radius <= SV_PLAYER_RADIUS + SvMaxScore
    /\ \E id \in SvSockets, q \in EnvServer.joinSites : SvJoin(id, q)
ServerInput == \E id \in SvSockets : \E d \in SvPayloadsOf(id) : SvInput(id, d)
ServerDisconnect == \E id \in SvSockets : SvDisconnect(id)
ServerSpawnFruit == SvSpawnFruit(EnvServer)
ServerTick == SvTick

NextServer ==
    \/ ServerJoin
    \/ ServerInput
    \/ ServerDisconnect
    \/ ServerSpawnFruit
    \/ ServerTick

SpecServer == InitServer /\ [][NextServer]_vars

(***************************************************************************)
(* SpecArena: three server players of three sizes meeting                  *)
(***************************************************************************)
\* A server player that has eaten fruit worth `score` where it joined.
SvGrown(id, x, y, score) ==
    [SvNewPlayer(id, x, y) EXCEPT !.radius = @ + score, !.score = score]

\* Three players that joined far from each other, in this order, and have not
\* moved yet; the first two have eaten.  Any of them may already be steering.
InitArena ==
    /\ prog = "server" /\ GameIdle
    /\ fruits = << >> /\ closed = {}
    /\ ev = NoEvent
    /\ \E sizes \in { <<1, 2, 0>>, <<2, 1, 0>>, <<0, 0, 0>>, <<0, 1, 2>> } :
          players = << SvGrown(1, 22, 22, sizes[1]), SvGrown(2, 22, 2, sizes[2]),
                       SvGrown(3, 2, 12, sizes[3]) >>

ArenaInput ==
    \E id \in 1..3, d \in { <<1, 0>>, <<0, 1>>, <<0, 0>> } : SvInput(id, d)
ArenaDisconnect == \E id \in 1..3 : SvDisconnect(id)
ArenaTick == SvTick

NextArena ==
    \/ ArenaInput
    \/ ArenaDisconnect
    \/ ArenaTick

SpecArena == InitArena /\ [][NextArena]_vars

(***************************************************************************)
(* SpecIdle: a collector bot that finds nothing, beside a moving player     *)
(***************************************************************************)
IdleField == << EllipseOb(5, 6, 3, 2) >>

\* A field with a block between the player and the first enemy and a block
\* along the top edge on the right.
StuckField == << RectOb(4, 4, 2, 3), RectOb(8, 0, 2, 1) >>

\* What the random draws can give in SpecIdle.
EnvIdle ==
    [sites |-> { <<8, 2>> },
     boostSites |-> { <<8, 2>> },
     types |-> {"fruit"}, levels |-> {1}, spawnMayFail |-> FALSE,
     nudges |-> { <<0 - 1, 0 - 1>>, <<1, 1>> }, angles |-> { <<1, 0>> },
     fields |-> { IdleField }, starts |-> { <<0, 3>> },
     svSites |-> {}, svLevels |-> {}]

\* A running game in IdleField with nothing on the ground: the player where
\* startGame left it (at the left edge, clear of the ellipse) or further up, one
\* bot bought earlier that has or has not been without a collection for a while.
InitIdle ==
    \/ \E py \in {1, 3}, idle \in {0, BOT_POINTS_TIMEOUT_FRAMES - 2} :
          Scene(IdleField,
                [Levelled(NewPlayer(0, py), 63, 2) EXCEPT !.upgradePointsSpent = BOT_COST],
                <<>>,
                << [NewBot("point", 8, 2) EXCEPT !.framesSinceLastCollection = idle] >>,
                << [NewTargetBot(8, 2, PLAYER_RADIUS) EXCEPT !.health = 0] >>)
    \* two fruits have just spawned, one of them beside the player: the bot is on
    \* its way to the one beside the player, or has reached the other one, or stands
    \* at the other one while still heading for the first
    \/ LET near == Fruit(1, 1, 1, 3, 0)
           far == Fruit(2, 3, 8, 2, 0)
       IN  \E b \in { [NewBot("point", 2, 3) EXCEPT !.target = near],
                       [NewBot("point", 8, 2) EXCEPT !.target = far],
                       [NewBot("point", 8, 2) EXCEPT !.target = near] } :
               Scene(IdleField,
                     [Levelled(NewPlayer(0, 3), 63, 2) EXCEPT !.upgradePointsSpent = BOT_COST],
                     << near, far >>, << b >>,
                     << [NewTargetBot(8, 2, PLAYER_RADIUS) EXCEPT !.health = 0] >>)
    \* the first enemy has been held by the block between it and the player for
    \* all but two of the frames it is allowed; the player is in the lower or in
    \* the upper half of the map
    \/ \E py \in {4, 5} :
          Scene(StuckField,
                [Levelled(NewPlayer(2, py), 63, 2) EXCEPT !.upgradePointsSpent = BOT_COST],
                <<>>, <<>>,
                << [NewTargetBot(8, py, PLAYER_RADIUS) EXCEPT
                       !.stuckFrames = STUCK_FRAMES - 2] >>)

IdleSetDir == \E d \in { <<0, 1>>, <<0, 0>> } : SetDir(d)
IdleTick == Tick(EnvIdle)
IdleSpawnTimer == SpawnTimer(EnvIdle)

NextIdle ==
    \/ IdleSetDir
    \/ IdleTick
    \/ IdleSpawnTimer

SpecIdle == InitIdle /\ [][NextIdle]_vars

(***************************************************************************)
(* SpecSession: a session that ends, the keys pressed and the timer after  *)
(* it, and the session that follows                                        *)
(***************************************************************************)
EnvSession ==
    [sites |-> { <<8, 8>> },
     boostSites |-> { <<8, 8>> },
     types |-> {"fruit"}, levels |-> {1}, spawnMayFail |-> FALSE,
     nudges |-> { <<1, 1>> }, angles |-> { <<1, 0>> },
     fields |-> { BotField }, starts |-> { <<2, 2>> },
     svSites |-> {}, svLevels |-> {}]

\* A running game in BotField: the player in a corner with ammo, two upgrade
\* points and one or two hits left, the first enemy alive within its reach.
InitSession ==
    \/ \E hp \in {20, 40} :
          Scene(BotField,
                [Levelled(NewPlayer(2, 2), 63, 2) EXCEPT !.ammo = 1,
                                                         !.health = hp * HealthDen],
                <<>>, <<>>,
                << NewTargetBot(5, 2, PLAYER_RADIUS) >>)
    \* late in a long first round: twelve levels reached, the thirteenth one
    \* point away, eight upgrade points spent on the four bots that stand by
    \* the player, the first enemy shot dead across the field
    \/ Scene(BotField,
             [Levelled(NewPlayer(2, 2), 283, 12) EXCEPT
                 !.upgradePointsSpent = (MAX_BOTS - 1) * BOT_COST],
             <<>>,
             [k \in 1..(MAX_BOTS - 1) |-> NewBot("point", 2, 2)],
             << [NewTargetBot(8, 2, PLAYER_RADIUS) EXCEPT !.health = 0] >>)

SessionTick == Tick(EnvSession)
SessionShoot == Shoot
SessionUpgrade == UpgradeKey("health")
SessionBuyBot == BuyBotKey("point")
SessionSpawnTimer == SpawnTimer(EnvSession)
SessionStartGame == StartGame(EnvSession)
SessionIdleFrame == IdleFrame
SessionIgnoredKey == IgnoredKey
\* the arrow keys are pressed only once the game is over
SessionSetDir == ~gameRunning /\ \E d \in { <<1, 0>>, <<0, 0>> } : SetDir(d)

NextSession ==
    \/ SessionIdleFrame
    \/ SessionIgnoredKey
    \/ SessionSetDir
    \/ SessionTick
    \/ SessionShoot
    \/ SessionUpgrade
    \/ SessionBuyBot
    \/ SessionSpawnTimer
    \/ SessionStartGame

SpecSession == InitSession /\ [][NextSession]_vars

(***************************************************************************)
(* SpecHealth: contact damage, the health boost and the health upgrade     *)
(***************************************************************************)
EnvHealth ==
    [sites |-> { <<2, 2>> },
     boostSites |-> { <<2, 2>> },
     types |-> {"fruit"}, levels |-> {1}, spawnMayFail |-> FALSE,
     nudges |-> { <<1, 1>> }, angles |-> { <<1, 0>> },
     fields |-> { BotField }, starts |-> { <<2, 2>> },
     svSites |-> {}, svLevels |-> {}]

\* A running game in BotField: the player in a corner, with two upgrade points,
\* badly hurt, lightly hurt or whole, the first enemy alive within its reach.
InitHealth ==
    \E hp \in {20, 90, 100}, ex \in {5, 8} :
        Scene(BotField,
              [Levelled(NewPlayer(2, 2), 63, 2) EXCEPT !.health = hp * HealthDen],
              <<>>, <<>>,
              << NewTargetBot(ex, 2, PLAYER_RADIUS) >>)

HealthTick == Tick(EnvHealth)
HealthUpgrade == UpgradeKey("health")
HealthSetDir == \E d \in { <<1, 0>>, <<0, 0>> } : SetDir(d)

NextHealth ==
    \/ HealthTick
    \/ HealthUpgrade
    \/ HealthSetDir

SpecHealth == InitHealth /\ [][NextHealth]_vars

(***************************************************************************)
(* Claims about the collector bots                                         *)
(***************************************************************************)
InWorld(a, w, h) ==
    /\ a.radius <= a.x /\ a.x <= w - a.radius
    /\ a.radius <= a.y /\ a.y <= h - a.radius

HasTarget(i) == bots[i].target # Null

\* C3: no two distinct collector bots of the same role hold the same item as
\* target, in any state: findTarget and findFarthestTarget never assign an item
\* that another bot in bots is holding.
C3_NoSharedTarget ==
    \A i, k \in 1..Len(bots) :
        (i # k /\ bots[i].type = bots[k].type /\ HasTarget(i) /\ HasTarget(k))
            => bots[i].target.id # bots[k].target.id

\* C3 witness: after a tick two bots of one role hold targets, one of them
\* assigned by findTarget in that tick while the other bot held its own.
C3_Witness ==
    /\ ev.op = "update"
    /\ \E i, k \in 1..Len(bots) :
          /\ i # k /\ bots[i].type = bots[k].type /\ HasTarget(i) /\ HasTarget(k)
          /\ i \in ev.acquired /\ k \notin ev.acquired

\* C4: a bot whose stalledFrames reached BOT_STALL_FRAMES in the tick was
\* relocated to a position inside the world with target null, stalledFrames 0 and
\* rerouteRank 2; no bot ends a tick with stalledFrames at the threshold.
C4_StallRelocation ==
    ev.op = "update" =>
        /\ \A i \in ev.stallRelocated :
              /\ bots[i].target = Null
              /\ bots[i].stalledFrames = 0
              /\ bots[i].rerouteRank = 2
              /\ InWorld(bots[i], WORLD_WIDTH, WORLD_HEIGHT)
        /\ \A i \in 1..Len(bots) : bots[i].stalledFrames < BOT_STALL_FRAMES

\* C4 witness: a tick relocated a stalled bot.
C4_Witness == ev.op = "update" /\ ev.stallRelocated # {}

\* The number of level thresholds 20 + 22 * k that the score has reached.
ThresholdsReached(score) == Cardinality({ k \in 0..score : 20 + 22 * k <= score })

C5_RoundTransition ==
    (ev.op = "update" /\ ev.newRound) =>
        LET old == ev.before.targetBots
            n == Len(old)
        IN  /\ roundLevel = ev.before.roundLevel + 1
            /\ Len(targetBots) = n + 1
            /\ \A k \in 1..n :
                  /\ targetBots[k].maxHealth = old[k].maxHealth + 20 * HealthDen
                  /\ targetBots[k].health = old[k].health + 20 * HealthDen
            /\ ev.before.roundLevel = 1 =>
                  /\ targetBots[n + 1].maxHealth = player.maxHealth + 20 * HealthDen
                  /\ targetBots[n + 1].health = targetBots[n + 1].maxHealth
            /\ progressFrame = 0

\* C5 witness: the transition from round 1 to round 2 with an enemy present,
\* after the player has raised maxHealth by an upgrade.
C5_Witness ==
    /\ ev.op = "update" /\ ev.newRound
    /\ ev.before.roundLevel = 1 /\ Len(ev.before.targetBots) = 1
    /\ player.maxHealth > 100 * HealthDen

\* C7: shoot() adds exactly one bullet and takes exactly one ammo when the game
\* runs, ammo > 0 and the facing vector is not degenerate; in every other case
\* bullets and ammo are unchanged; ammo is never negative.
C7_Shoot ==
    /\ ev.op = "shoot" =>
          LET allowed == /\ gameRunning /\ player # Null /\ ev.ammo > 0
                         /\ (player.facingX # 0 \/ player.facingY # 0)
          IN  IF allowed
              THEN /\ Len(bullets) = Len(ev.bullets) + 1
                   /\ SubSeq(bullets, 1, Len(ev.bullets)) = ev.bullets
                   /\ player.ammo = ev.ammo - 1
              ELSE /\ bullets = ev.bullets
                   /\ player # Null => player.ammo = ev.ammo
    /\ player # Null => player.ammo >= 0

\* C7 witness: shoot() with no ammo left in a running game, after a shot that
\* used the last one.
C7_Witness ==
    /\ ev.op = "shoot" /\ gameRunning /\ ev.ammo = 0
    /\ (player.facingX # 0 \/ player.facingY # 0)
    /\ bullets # <<>>

\* C8: a hit subtracts BASE_BULLET_DAMAGE times the damage multiplier the player
\* had when the bullet was fired (no more than the enemy's health), whatever the
\* multiplier is at impact; a bullet fired with multiplier 1.5 carries 30.
C8_DamageFixedAtCreation ==
    /\ ev.op = "update" =>
          \A h \in ev.hits :
              h.healthBefore - h.healthAfter =
                  Min2(h.healthBefore,
                       (BASE_BULLET_DAMAGE * HealthDen * h.bullet.firedWith) \div MultDen)
    /\ NewBullet([NewPlayer(0, 0) EXCEPT !.bulletDamageMultiplier = (3 * MultDen) \div 2]).damage
          = 30 * HealthDen

\* C8 witness: a hit by a bullet fired before a bulletDamage upgrade.
C8_Witness ==
    /\ ev.op = "update"
    /\ \E h \in ev.hits : /\ h.bullet.firedWith < player.bulletDamageMultiplier
                          /\ h.healthAfter > 0

\* C9: the items never hold more than MAX_FRUIT_COUNT fruits or more than
\* MAX_AMMO_COUNT ammo pickups, and the server's fruits never hold more than
\* its MAX_FRUIT_COUNT, under any interleaving of spawn timers, ticks and
\* startGame.
C9_ItemCaps ==
    /\ CountType(items, "fruit") <= MAX_FRUIT_COUNT
    /\ CountType(items, "ammo") <= MAX_AMMO_COUNT
    /\ Len(fruits) <= SV_MAX_FRUIT_COUNT

\* C9 witness: the spawn timer fired with both kinds at their maximum, in a
\* session begun by startGame.
C9_Witness ==
    /\ ev.op = "spawnItem"
    /\ CountType(items, "fruit") = MAX_FRUIT_COUNT
    /\ CountType(items, "ammo") = MAX_AMMO_COUNT
    /\ frameCount > 0

\* C10: the age sweep of a tick removes an item if and only if its age,
\* frameCount - spawnFrame, exceeds DESPAWN_FRAMES.
C10_SweepOnlyOlder ==
    ev.op = "update" =>
        /\ \A r \in ev.swept : r.age > DESPAWN_FRAMES
        /\ \A r \in ev.kept : r.age <= DESPAWN_FRAMES

(***************************************************************************)
(* Claims about movement                                                   *)
(***************************************************************************)
MoveOps == {"Player.update", "Bot.moveTowardsTarget", "Bot.moveInDirection",
            "TargetBot.moveInDirection"}

\* The actor the last movement step moved.
Moved ==
    IF ev.who = "player" THEN player
    ELSE IF ev.who = "bot" THEN bots[ev.idx]
    ELSE IF ev.who = "enemy" THEN targetBots[ev.idx]
    ELSE players[ev.idx]

\* C1: an actor whose circle intersected no obstacle before a movement step
\* (Player.update, Bot.moveTowardsTarget, Bot.moveInDirection,
\* TargetBot.moveInDirection) intersects none after it, clamp included.
C1_NoObstacleAfterMove ==
    (ev.op \in MoveOps /\ ~collidesWithObstacles(ev.pre.x, ev.pre.y, Moved.radius))
        => ~collidesWithObstacles(Moved.x, Moved.y, Moved.radius)

C11_BoostRespawn ==
    /\ ev.op = "update" =>
          /\ ev.speed.spawned =>
                ev.speed.slot = Null /\ frameCount >= ev.speed.next
          /\ ev.health.spawned =>
                ev.health.slot = Null /\ frameCount >= ev.health.next
          /\ nextSpeedBoostFrame =
                IF ev.speed.collected THEN frameCount + SPEED_BOOST_RESPAWN_FRAMES
                ELSE ev.speed.next
          /\ nextHealthBoostFrame =
                IF ev.health.collected THEN frameCount + HEALTH_BOOST_RESPAWN_FRAMES
                ELSE ev.health.next
          /\ ev.speed.collected => speedBoost = Null
          /\ ev.health.collected => healthBoost = Null
    /\ speedBoost # Null => speedBoost.spawnFrame >= nextSpeedBoostFrame
    /\ healthBoost # Null => healthBoost.spawnFrame >= nextHealthBoostFrame

\* C11 witness: a speed boost created in a tick after an earlier one had been
\* collected, the respawn delay having elapsed.
C11_Witness ==
    /\ ev.op = "update" /\ ev.speed.spawned
    /\ ev.speed.next >= SPEED_BOOST_RESPAWN_FRAMES
    /\ frameCount >= ev.speed.next

(***************************************************************************)
(* Claims about the enemies                                                *)
(***************************************************************************)
\* C12: an enemy in contact with the player takes the fixed 20 health (no more
\* than the player has) only when its attackCooldown has expired, and two hits
\* by the same enemy are at least the cooldown (60 ticks) apart.
C12_ContactCooldown ==
    ev.op = "update" =>
        \A d \in ev.strikes :
            /\ d.cooldown <= 0
            /\ d.healthBefore - d.healthAfter = Min2(d.healthBefore, 20 * HealthDen)
            /\ d.prev # 0 => frameCount - d.prev >= ATTACK_COOLDOWN_FRAMES

\* C12 witness: the second hit of a live enemy that stayed in contact.
C12_Witness ==
    /\ ev.op = "update"
    /\ \E d \in ev.strikes : d.prev # 0 /\ d.alive

\* C13: in the tick where an enemy's hit brings player.health to 0, gameOver()
\* runs (gameRunning is false afterwards) and the loop stops there: no enemy
\* later in targetBots is updated or hits in that tick.  player.health is never
\* below 0.
C13_GameOverStopsLoop ==
    /\ ev.op = "update" =>
          \A d \in ev.strikes :
              d.healthAfter <= 0 =>
                  /\ ev.gameOver /\ ~gameRunning
                  /\ \A k \in (d.enemy + 1)..Len(targetBots) :
                        /\ k \notin ev.visited
                        /\ \A h \in ev.strikes : h.enemy # k
                        /\ [targetBots[k] EXCEPT !.health = 0, !.maxHealth = 0]
                              = [ev.enemies[k] EXCEPT !.health = 0, !.maxHealth = 0]
    /\ player # Null => player.health >= 0

\* C13 witness: the first of two enemies takes the player's last health while
\* the second is in contact too, its cooldown expired.
C13_Witness ==
    /\ ev.op = "update" /\ ev.gameOver
    /\ \E d \in ev.strikes :
          /\ d.healthAfter = 0 /\ d.enemy < Len(targetBots)
          /\ \E k \in (d.enemy + 1)..Len(targetBots) :
                /\ targetBots[k].attackCooldown <= 0
                /\ Within(targetBots[k].x, targetBots[k].y, player.x, player.y,
                          targetBots[k].radius + player.radius)

(***************************************************************************)
(* Claims about placement                                                  *)
(***************************************************************************)
\* C14: no item and no boost on the ground intersects an obstacle of the
\* current session's field.
C14_ItemsClearOfObstacles ==
    /\ \A i \in 1..Len(items) :
          ~CollidesIn(obstacles, items[i].x, items[i].y, items[i].radius)
    /\ speedBoost # Null =>
          ~CollidesIn(obstacles, speedBoost.x, speedBoost.y, speedBoost.radius)
    /\ healthBoost # Null =>
          ~CollidesIn(obstacles, healthBoost.x, healthBoost.y, healthBoost.radius)

(***************************************************************************)
(* Claims about targets, dead enemies and bullets                          *)
(***************************************************************************)
\* The target of bot i is one of the items.
TargetListed(i) == \E k \in 1..Len(items) : items[k].id = bots[i].target.id

\* C15: at the end of every tick each collector bot's target is null or an item
\* that is in items.
C15_TargetInItems ==
    ev.op = "update" =>
        \A i \in 1..Len(bots) : HasTarget(i) => TargetListed(i)

\* C16: an enemy whose health has reached zero is no longer a live enemy: it
\* does not hit the player again, and it does not come back to life (so that it
\* could move, hit or take a bullet again).
C16_DeadEnemyHarmless ==
    ev.op = "update" =>
        /\ \A d \in ev.strikes : d.alive
        /\ ev.newRound =>
              \A k \in 1..Len(ev.before.targetBots) :
                  ev.before.targetBots[k].health <= 0 => targetBots[k].health <= 0

\* The hits of a tick on enemy j.
HitsOn(j) == { h \in ev.hits : h.enemy = j }

C18_BulletsAlive ==
    ev.op = "update" =>
        \A i \in 1..Len(bullets) :
            LET b == bullets[i]
            IN  /\ b.life > 0
                /\ 0 <= b.x /\ b.x <= WORLD_WIDTH
                /\ 0 <= b.y /\ b.y <= WORLD_HEIGHT
                /\ ~CollidesIn(obstacles, b.x, b.y, b.radius)
                /\ b.life = DEFAULT_BULLET_LIFE * b.firedRange
                               - (frameCount - b.firedAt) * MultDen

\* C18 witness: a tick took out a bullet that hit nothing and left another one
\* in flight.
C18_Witness ==
    /\ ev.op = "update"
    /\ bullets # <<>>
    /\ Len(bullets) + Cardinality(ev.hits) < Len(ev.shots)

(***************************************************************************)
(* Claims about the server's connections                                   *)
(***************************************************************************)
\* The player registered for socket id `id` in the sequence ps.
SvEntries(ps, id) == { k \in 1..Len(ps) : ps[k].id = id }

\* A stored direction Player.update has to take as no movement: zero length, or
\* a component that is not a finite number.
SvNoDirection(p) ==
    \/ ~IsNum(p.dirX) \/ ~IsNum(p.dirY)
    \/ (p.dirX = 0 /\ p.dirY = 0)

\* C19: whatever payload 'input' gets (zero length, NaN, infinite, non-numeric or
\* missing), the handler does not throw, every player's position is a finite
\* value inside the world, and the next Player.update leaves a player with such
\* a direction where it was.
C19_BadInputIsNoMovement ==
    /\ ev.op = "input" => ~ev.threw
    /\ prog = "server" =>
          \A k \in 1..Len(players) :
              /\ IsNum(players[k].x) /\ 0 <= players[k].x /\ players[k].x <= SV_WORLD_WIDTH
              /\ IsNum(players[k].y) /\ 0 <= players[k].y /\ players[k].y <= SV_WORLD_HEIGHT
    /\ ev.op = "svTick" =>
          \A k \in 1..Len(ev.before) : \A m \in SvEntries(players, ev.before[k].id) :
              SvNoDirection(ev.before[k]) =>
                  players[m].x = ev.before[k].x /\ players[m].y = ev.before[k].y

\* C20: a 'join' on a connection that already has a player leaves exactly one
\* entry for the socket id and as many players as before; the entry is a new
\* Player (score 0, no direction, starting radius and speed), 'init' is emitted
\* with the id again, and the handler does not throw.
C20_SecondJoinOverwrites ==
    (ev.op = "join" /\ SvEntries(ev.before, ev.idx) # {}) =>
        /\ Cardinality(SvEntries(players, ev.idx)) = 1
        /\ Len(players) = Len(ev.before)
        /\ \A k \in SvEntries(players, ev.idx) :
              /\ players[k] = SvNewPlayer(ev.idx, players[k].x, players[k].y)
              /\ k \in SvEntries(ev.before, ev.idx)
        /\ \A k \in 1..Len(players) : players[k].id # ev.idx => players[k] = ev.before[k]
        /\ ev.emitted = ev.idx
        /\ ~ev.threw

\* C20 witness: the connection that joins again had a player that had eaten and
\* was steering, while another player is registered too.
C20_Witness ==
    /\ ev.op = "join" /\ Len(ev.before) = 2
    /\ \E k \in SvEntries(ev.before, ev.idx) :
          /\ ev.before[k].score > 0
          /\ ev.before[k].dirX # 0
          /\ players[k].score = 0 /\ players[k].dirX = 0

(***************************************************************************)
(* Claims about upgrade points                                             *)
(***************************************************************************)
\* C25: after every fruit collection, by the player or by a bot, the upgrade
\* points earned are one for every 20 points of score:
\* upgradePointsEarned = floor(score / 20).
C25_PointPerTwenty ==
    (ev.op = "update" /\ \E c \in ev.collected : c.type = "fruit") =>
        player.upgradePointsEarned = player.score \div 20

(***************************************************************************)
(* Claims about the server's registry                                      *)
(***************************************************************************)
\* The socket ids whose 'disconnect' event has been handled.
Disconnected(cl) == { c[1] : c \in { d \in cl : d[2] \in {"left", "idle"} } }

\* C21: once a connection's 'disconnect' has been handled its player is in no
\* later state of the registry: no tick that starts afterwards moves or collides
\* it (it is not in the players the tick starts from) and no 'state' snapshot
\* lists it.
C21_DisconnectedStaysOut ==
    /\ \A k \in 1..Len(players) : players[k].id \notin Disconnected(closed)
    /\ ev.op = "svTick" =>
          \A id \in Disconnected(ev.closedBefore) :
              id \notin SvSnapshot(ev.before) /\ id \notin ev.state

\* C21 witness: a tick over the players that remain after a connection with a
\* player has disconnected.
C21_Witness ==
    /\ ev.op = "svTick" /\ ev.before # <<>>
    /\ \E c \in ev.closedBefore : c[2] = "left"

\* C22: a player absorbed in a tick is out of players at the end of that tick
\* and out of the 'state' snapshot; 'dead' went to the room of its own id and to
\* no other, and its connection was dropped in that tick.
C22_AbsorbedIsDropped ==
    ev.op = "svTick" =>
        /\ \A k \in 1..Len(ev.events) :
              LET e == ev.events[k]
              IN  /\ e.victim \in ev.absorbed
                  /\ e.dead = e.victim
        /\ \A id \in ev.absorbed :
              /\ id \notin SvSnapshot(players)
              /\ id \notin ev.state
              /\ \E k \in 1..Len(ev.events) :
                    ev.events[k].victim = id /\ ev.events[k].dropped = {id}
              /\ <<id, "dead">> \in closed

\* C22 witness: a tick in which one player was absorbed and another plays on.
C22_Witness ==
    /\ ev.op = "svTick" /\ ev.absorbed # {} /\ players # <<>>
    /\ Len(ev.before) = 3

\* C23: an 'input' message changes dirX and dirY of the sender's player and
\* nothing else: every other field of that player, every other player and every
\* fruit are as before, and without a player for the connection nothing changes.
C23_InputWritesDirectionOnly ==
    ev.op = "input" =>
        /\ fruits = ev.fruits
        /\ Len(players) = Len(ev.before)
        /\ \A k \in 1..Len(players) :
              IF players[k].id = ev.idx
              THEN players[k] = [ev.before[k] EXCEPT !.dirX = players[k].dirX,
                                                     !.dirY = players[k].dirY]
              ELSE players[k] = ev.before[k]
        /\ ~ev.known => players = ev.before

\* C23 witness: a player that had moved away from where it joined gets a new
\* direction while another player and a fruit are in the registry.
C23_Witness ==
    /\ ev.op = "input" /\ ev.known /\ Len(players) = 2 /\ fruits # <<>>
    /\ \E k \in SvEntries(players, ev.idx) :
          /\ players[k].dirX # ev.before[k].dirX
          /\ players[k].x = SV_PLAYER_RADIUS + 2

\* C24: an absorbed player is removed from the game and exactly half of its
\* score is added to the victor's score.
C24_HalfScoreTransfers ==
    ev.op = "svTick" =>
        \A k \in 1..Len(ev.events) :
            /\ ev.events[k].victim \notin SvSnapshot(players)
            /\ 2 * ev.events[k].gain = ev.events[k].score

\* C26: in every state every actor is within [radius, dimension - radius] on
\* both axes: server players from the moment they join and while they grow, the
\* player, the bots and the enemies of the game from the moment they are made.
C26_AlwaysInside ==
    /\ prog = "server" =>
          \A k \in 1..Len(players) :
              /\ IsNum(players[k].x) /\ IsNum(players[k].y)
              /\ InWorld(players[k], SV_WORLD_WIDTH, SV_WORLD_HEIGHT)
    /\ prog = "game" =>
          /\ player # Null => InWorld(player, WORLD_WIDTH, WORLD_HEIGHT)
          /\ \A k \in 1..Len(bots) : InWorld(bots[k], WORLD_WIDTH, WORLD_HEIGHT)
          /\ \A k \in 1..Len(targetBots) : InWorld(targetBots[k], WORLD_WIDTH, WORLD_HEIGHT)

\* C28: a player absorbed earlier in a tick's collision pass takes no further
\* part in it: it absorbs nobody afterwards and is not absorbed again.
C28_GoneTakesNoPart ==
    ev.op = "svTick" =>
        \A k \in 1..Len(ev.events) :
            ~ev.events[k].victorGone /\ ~ev.events[k].victimGone

(***************************************************************************)
(* Claims about the tick as a whole                                        *)
(***************************************************************************)
\* C27: every update() runs to its end and requests the next frame: no step of
\* it throws, and while the game runs the loop stays alive.
C27_TickCompletes ==
    ev.op = "update" => (~ev.threw /\ (gameRunning => loopAlive))

\* C29: an enemy whose health is 0 keeps health 0 in every later state of the
\* session (startGame, which makes a new enemy list, begins another session).
C29_DefeatedStaysDefeated ==
    [][ev'.op # "startGame" =>
          \A k \in 1..Len(targetBots) :
              (targetBots[k].health <= 0 /\ k <= Len(targetBots')) =>
                  targetBots'[k].health <= 0]_vars

C31_IdleRelocation ==
    ev.op = "update" =>
        /\ \A i \in ev.idleRelocated :
              /\ bots[i].x = player.x /\ bots[i].y = player.y
              /\ bots[i].target = Null
              /\ bots[i].stalledFrames = 0
              /\ bots[i].rerouteRank = 2
              /\ bots[i].framesSinceLastCollection = 0
        /\ \A i \in 1..Len(bots) :
              /\ 0 <= bots[i].framesSinceLastCollection
              /\ bots[i].framesSinceLastCollection < BOT_POINTS_TIMEOUT_FRAMES

\* The points of the fruits and the amounts of the ammo in a set of collections.
RECURSIVE Gained(_, _)
Gained(S, type) ==
    IF S = {} THEN 0
    ELSE LET c == CHOOSE x \in S : TRUE
         IN  (IF c.type # type THEN 0 ELSE IF type = "fruit" THEN c.points ELSE c.amount)
             + Gained(S \ {c}, type)

\* The score the players of ps have between them.
RECURSIVE SvScores(_, _)
SvScores(ps, k) == IF k > Len(ps) THEN 0 ELSE ps[k].score + SvScores(ps, k + 1)

\* The levels of the fruits in fs that are no longer in the registry.
RECURSIVE SvEaten(_, _)
SvEaten(fs, k) ==
    IF k > Len(fs) THEN 0
    ELSE (IF \E m \in 1..Len(fruits) : fruits[m].id = fs[k].id THEN 0 ELSE fs[k].level)
         + SvEaten(fs, k + 1)

C33_RoundLength ==
    (ev.op = "update" /\ ev.newRound) =>
        frameCount = (roundLevel - 1) * PROGRESS_BAR_FRAMES

(***************************************************************************)
(* Claims about sessions                                                   *)
(***************************************************************************)
\* C34: while gameRunning is true exactly one item-spawn timer is active, the
\* one spawnIntervalId names, and its period is the base interval times 0.9 to
\* the power roundLevel - 1; while gameRunning is false none is active, so
\* spawnItem runs only in a running game.
C34_OneSpawnTimer ==
    /\ gameRunning => /\ timers = {spawnIntervalId}
                      /\ intervalExp = roundLevel - 1
    /\ ~gameRunning => timers = {}
    /\ ev.op = "spawnItem" => gameRunning

\* C34 witness: a second session is running, on one timer.
C34_Witness ==
    /\ gameRunning /\ ev.op = "startGame" /\ frameCount > 0
    /\ Cardinality(timers) = 1

\* C36: when startGame returns, nothing of an earlier session is left: no
\* projectile and no boost (startGame creates none), no collector bot, one enemy
\* with the new player's health, only items spawned by this startGame, round 1,
\* and score, level, upgrades and the upgrade ledger at their initial values.
C36_FreshSession ==
    ev.op = "startGame" =>
        /\ bullets = <<>>
        /\ speedBoost = Null /\ healthBoost = Null
        /\ bots = <<>>
        /\ Len(targetBots) = 1
        /\ targetBots[1].health = player.maxHealth
        /\ targetBots[1].stuckFrames = 0 /\ targetBots[1].attackCooldown = 0
        /\ Len(items) <= INITIAL_SPAWNS
        /\ \A k \in 1..Len(items) : items[k].spawnFrame = frameCount
        /\ roundLevel = 1
        /\ player.score = 0 /\ player.level = 0
        /\ player.upgradePointsEarned = 0 /\ player.upgradePointsSpent = 0
        /\ \A t \in UpgradeTypes : player.upgrades[t] = 0

C38_SpeedBoostWindow ==
    ev.op = "update" =>
        LET p == player
            since == frameCount - p.boostedAt
            moving == ~LenBelowEps(p.dirX, p.dirY)
        IN  /\ p.speedBoostFrames >= 0
            /\ p.speedBoostFrames = IF ev.speed.collected THEN SPEED_BOOST_DURATION_FRAMES
                                    ELSE Max2(0, ev.boostBefore - 1)
            /\ p.speedBoostFrames = IF p.boostedAt = 0 THEN 0
                                    ELSE Max2(0, SPEED_BOOST_DURATION_FRAMES - since)
            /\ ~ev.speed.collected =>
                  (ev.boostBefore > 0 <=>
                      (p.boostedAt # 0 /\ 1 <= since /\ since <= SPEED_BOOST_DURATION_FRAMES))
            /\ moving => p.speed = PLAYER_BASE_SPEED * p.speedMultiplier
                                    * (IF ev.boostBefore > 0 THEN 2 ELSE 1)

\* C38 witness: the first Player.update after the boost has run out: the player
\* is moving, at its plain speed again.
C38_Witness ==
    /\ ev.op = "update" /\ player.boostedAt # 0
    /\ frameCount - player.boostedAt = SPEED_BOOST_DURATION_FRAMES + 1
    /\ ~LenBelowEps(player.dirX, player.dirY)
    /\ player.speed = PLAYER_BASE_SPEED * player.speedMultiplier
    /\ player.speedBoostFrames = 0

\* C39: the player's health is never below 0 or above maxHealth; over a tick
\* it goes from its value at the start, plus HEALTH_BOOST_AMOUNT capped at
\* maxHealth if the health boost was collected, down by CONTACT_DAMAGE for each
\* enemy that hit, floored at 0; the health upgrade raises maxHealth by the
\* current increment and sets health to the new maxHealth.
C39_HealthBounds ==
    /\ player # Null => 0 <= player.health /\ player.health <= player.maxHealth
    /\ (ev.op = "update" /\ ev.ran) =>
          LET boosted == IF ev.health.collected
                         THEN Min2(player.maxHealth,
                                   ev.healthBefore + HEALTH_BOOST_AMOUNT * HealthDen)
                         ELSE ev.healthBefore
          IN  player.health =
                  Max2(0, boosted - CONTACT_DAMAGE * HealthDen * Cardinality(ev.strikes))
    /\ (/\ ev.op = "applyUpgrade" /\ ev.type = "health"
        /\ ev.before.upgradePointsEarned > ev.before.upgradePointsSpent) =>
          /\ player.maxHealth = ev.before.maxHealth + ev.before.upgradeIncrement.health
          /\ player.maxHealth > ev.before.maxHealth
          /\ player.health = player.maxHealth

\* C39 witness: a tick in which the health boost would have taken the player
\* past maxHealth and an enemy hit afterwards.
C39_Witness ==
    /\ ev.op = "update" /\ ev.health.collected /\ ev.strikes # {}
    /\ ev.healthBefore + HEALTH_BOOST_AMOUNT * HealthDen > player.maxHealth
    /\ player.health = player.maxHealth - CONTACT_DAMAGE * HealthDen

\* The player without the direction the arrow keys hold.
Stats(p) == [p EXCEPT !.dirX = 0, !.dirY = 0]

\* C40: from the game over to the next startGame nothing moves: a step that is
\* not startGame, taken when a game has ended, leaves gameRunning false and
\* leaves the player's stats, the items, the projectiles, the bots, the enemies
\* and the round number as they were.
C40_FrozenAfterGameOver ==
    [][(~gameRunning /\ player # Null /\ ev'.op # "startGame") =>
          /\ ~gameRunning'
          /\ Stats(player') = Stats(player)
          /\ items' = items /\ bullets' = bullets
          /\ bots' = bots /\ targetBots' = targetBots
          /\ roundLevel' = roundLevel]_vars

\* C40 witness: the fire button pressed after the game over, with ammo in hand
\* and a direction to fire in; no bullet was made.
C40_Witness ==
    /\ ~gameRunning /\ player # Null
    /\ ev.op = "shoot" /\ ~ev.fired
    /\ player.ammo > 0 /\ ~LenBelowEps(player.facingX, player.facingY)
    /\ bullets = ev.bullets

(***************************************************************************)
(* Claims about the enemies' stall relocation                              *)
(***************************************************************************)
\* C35: no enemy ends a tick with stuckFrames at STUCK_FRAMES or more, and an
\* enemy relocated in a tick lies in the bands of the quadrant diagonally
\* opposite the player's, does not intersect an obstacle, and has stuckFrames 0.
C35_StuckRelocation ==
    ev.op = "update" =>
        \A k \in 1..Len(targetBots) :
            LET e == targetBots[k]
            IN  /\ e.stuckFrames < STUCK_FRAMES
                /\ e.relocatedAt = frameCount =>
                      /\ e.x \in OppositeBand(player.x, WORLD_WIDTH)
                      /\ e.y \in OppositeBand(player.y, WORLD_HEIGHT)
                      /\ ~CollidesIn(obstacles, e.x, e.y, e.radius)
                      /\ e.stuckFrames = 0

====
